---------------------------- MODULE Spec2Model ----------------------------
(***************************************************************************)
(* Scan / normalize / aggregate / recommend pipeline of the                *)
(* lawyer-practice-optimizer: the filesystem scanner (fs_analyzer.py), the *)
(* Drive scanner (cloud_scanner.py), the mailbox scanner                   *)
(* (src/email_scanner.py) and the coordinator (src/system_coordinator.py). *)
(*                                                                         *)
(* Conventions                                                             *)
(*  - A Python dict is a TLA+ record/function; a key that the code never   *)
(*    sets is absent from the DOMAIN, and dict.get(k, d) is Get(r, k, d).  *)
(*  - Hours per week are kept in tenths of an hour (0.5 h -> 5, 0.2 h ->   *)
(*    2), so that every saving of the code is an integer.                  *)
(*  - A percentage (k / n) * 100 is kept as the pair num/den and compared  *)
(*    by cross multiplication; for den <= 200 (the naming sample) and for  *)
(*    quota values below 2^44 bytes the IEEE-754 double comparison of the  *)
(*    code gives the same verdict as the exact one.                        *)
(*  - cloud_scanner.py line 292 is read as the dict entry                  *)
(*    'implementation_time': '1-2 hours' (the quotes are misplaced in the  *)
(*    source); the field plays no part in any decision.                    *)
(***************************************************************************)
EXTENDS Integers, Sequences, FiniteSets, TLC

VARIABLES
    fs_pc,          \* FileAnalyzer.scan_filesystem: position in the scan
    fs,             \* FileAnalyzer.scan_filesystem: locals and results
    dr_pc,          \* CloudScanner.scan_google_drive: position in the scan
    dr,             \* CloudScanner.scan_google_drive: locals and results
    em_pc,          \* EmailScanner.scan_gmail: position in the scan
    em,             \* EmailScanner.scan_gmail: provider answers and results
    pc,             \* SystemCoordinator.run_full_analysis: position
    req,            \* run_full_analysis arguments and what the sources did
    scan_results,   \* SystemCoordinator.scan_results
    an_pc,          \* PracticeAnalyzer._calculate_time_savings: position
    an,             \* PracticeAnalyzer: score_results and the list returned
    dq_pc,          \* DiagnosticQuestionnaire: position of the call
    dq,             \* DiagnosticQuestionnaire: arguments and value returned
    tk_pc,          \* EmailTokenManager: position
    tk              \* EmailTokenManager: tokens, the clock and the calls made

vars == <<fs_pc, fs, dr_pc, dr, em_pc, em, pc, req, scan_results, an_pc, an,
          dq_pc, dq, tk_pc, tk>>

fsVars == <<fs_pc, fs>>
drVars == <<dr_pc, dr>>
emVars == <<em_pc, em>>
coVars == <<pc, req, scan_results>>
anVars == <<an_pc, an>>
dqVars == <<dq_pc, dq>>
tkVars == <<tk_pc, tk>>

-----------------------------------------------------------------------------
(* Generic helpers *)

\* dict.get(key, default)
Get(r, k, d) == IF k \in DOMAIN r THEN r[k] ELSE d

\* d[k] = v on a dict held as a function
Put(r, k, v) == [x \in DOMAIN r \cup {k} |-> IF x = k THEN v ELSE r[x]]

\* defaultdict(int)[k] += n
Bump(r, k, n) == Put(r, k, Get(r, k, 0) + n)

Min(a, b) == IF a <= b THEN a ELSE b

Max(a, b) == IF a >= b THEN a ELSE b

RECURSIVE SumSeq(_)
SumSeq(s) == IF s = <<>> THEN 0 ELSE Head(s) + SumSeq(Tail(s))

RECURSIVE SumFn(_, _)
SumFn(f, D) ==
    IF D = {} THEN 0
    ELSE LET x == CHOOSE y \in D : TRUE IN f[x] + SumFn(f, D \ {x})

RECURSIVE MapSeq(_, _)
MapSeq(Op(_), s) == IF s = <<>> THEN <<>> ELSE <<Op(Head(s))>> \o MapSeq(Op, Tail(s))

RECURSIVE FilterSeq(_, _)
FilterSeq(Test(_), s) ==
    IF s = <<>> THEN <<>>
    ELSE (IF Test(Head(s)) THEN <<Head(s)>> ELSE <<>>) \o FilterSeq(Test, Tail(s))

\* s[:n]
Take(s, n) == SubSeq(s, 1, Min(n, Len(s)))

\* s[1:]
Rest(s) == IF s = <<>> THEN <<>> ELSE Tail(s)

SeqToSet(s) == {s[i] : i \in 1..Len(s)}

\* The number of positions of s that hold x
Count(s, x) == Cardinality({i \in 1..Len(s) : s[i] = x})

\* Stable insertion of x into a sequence kept in non-increasing key order:
\* x goes behind every element whose key is >= its own.  Python's
\* list.sort(key=..., reverse=True) and sorted(..., reverse=True) are stable
\* (equal keys keep their original order).
RECURSIVE InsertDesc(_, _, _)
InsertDesc(Key(_), x, s) ==
    IF s = <<>> THEN <<x>>
    ELSE IF Key(Head(s)) >= Key(x) THEN <<Head(s)>> \o InsertDesc(Key, x, Tail(s))
    ELSE <<x>> \o s

RECURSIVE SortDescFrom(_, _, _)
SortDescFrom(Key(_), s, acc) ==
    IF s = <<>> THEN acc
    ELSE SortDescFrom(Key, Tail(s), InsertDesc(Key, Head(s), acc))

SortDesc(Key(_), s) == SortDescFrom(Key, s, <<>>)


-----------------------------------------------------------------------------
(* fs_analyzer.py: FileAnalyzer *)

\* Bounds of the model disk
MaxListed == 6          \* entries listed by os.walk on a disk of plain copies
MaxMixed == 4           \* entries listed by os.walk on a disk of mixed entries
MaxSpecial == 1         \* entries of one scan that are excluded or fail to read

\* Program constants
MinDupSize == 1024      \* file_size > 1024
PathsKept == 5          \* paths[:5]
NamingSample == 200     \* file_paths[:200]
RootFilesLimit == 50    \* root_files > 50
DeepIssueDepth == 8     \* max_depth >= 8
DeepFolderDepth == 6    \* depth >= 6
CrowdedFiles == 20      \* len(dir_structure[dir_path]) > 20
ShallowLimit == 5       \* len(shallow_folders) > 5
SpacesLimit == 30       \* spaces_in_name > 30
DatesLimit == 10        \* date_in_name < 10
DefaultMaxFiles == 10000

excluded_extensions == {".tmp", ".temp", ".cache", ".lock"}

\* A file name, by the features the code reads: the lower-cased suffix, the
\* keywords its path contains, whether its stem holds a space, and whether
\* the name holds one of the date patterns ('202', '2024', '2025').
NameContract == [ext |-> ".pdf", kws |-> {"contract"}, space |-> FALSE, date |-> TRUE]
NameNotes    == [ext |-> ".txt", kws |-> {}, space |-> TRUE, date |-> FALSE]
NameSheet    == [ext |-> ".xlsx", kws |-> {"invoice"}, space |-> FALSE, date |-> FALSE]
NameTmp      == [ext |-> ".tmp", kws |-> {}, space |-> FALSE, date |-> FALSE]

\* File contents of the model disk and their lengths in bytes.  Content 1 is
\* exactly at the duplicate-detection threshold.
Contents == {1, 2, 3}
SizeOf(c) == CASE c = 1 -> 1024 [] c = 2 -> 2000 [] c = 3 -> 3000

\* hashlib.md5 over the whole byte stream: contents -> digests, taken to be
\* collision free on the model disk.
Md5(c) == CASE c = 1 -> "d1" [] c = 2 -> "d2" [] c = 3 -> "d3"

\* What can go wrong while one entry is read: filepath.stat() raises,
\* datetime.fromtimestamp(st_mtime) raises, or open()/read() raises in
\* _get_file_hash.
Faults == {"none", "stat", "mtime", "hash"}

CopyFiles ==
    { [name |-> NameContract, content |-> 2, fault |-> "none"],
      [name |-> NameNotes,    content |-> 3, fault |-> "none"] }

PlainFiles ==
    CopyFiles \cup { [name |-> NameSheet, content |-> 1, fault |-> "none"] }

SpecialFiles ==
    { [name |-> NameTmp,      content |-> 2, fault |-> "none"],
      [name |-> NameNotes,    content |-> 2, fault |-> "stat"],
      [name |-> NameNotes,    content |-> 2, fault |-> "mtime"],
      [name |-> NameContract, content |-> 2, fault |-> "hash"] }

\* The model disks: "copies" holds up to MaxListed readable files of two
\* contents above the threshold (so that a content occurs more than
\* PathsKept times); "mixed" holds up to MaxMixed entries of every kind, of
\* which at most MaxSpecial are excluded or unreadable.
DiskKinds == {"copies", "mixed"}
ListedBound(kind) == IF kind = "copies" THEN MaxListed ELSE MaxMixed
FilePool(kind, special) ==
    IF kind = "copies" THEN CopyFiles
    ELSE PlainFiles \cup (IF special < MaxSpecial THEN SpecialFiles ELSE {})

\* Directories of the model disk in os.walk (top-down) order, as the parts of
\* their path relative to scan_path.
DirOrder == << <<>>, <<"a", "b">> >>

\* current_dir = str(rel_path) if str(rel_path) != '.' else 'root'
CurrentDir(rel) == IF rel = <<>> THEN <<"root">> ELSE rel

\* len(rel_path.parts) if str(rel_path) != '.' else 0
PartsDepth(rel) == IF rel = <<>> THEN 0 ELSE Len(rel)

\* dir_path.count('/') on the joined path
SlashCount(dir_path) == Len(dir_path) - 1

\* A variant of _categorize_file that applies the generic rule of the
\* document types before it looks at the keywords
_categorize_file_by_type(ext, kws) ==
    IF ext \in {".pdf", ".doc", ".docx", ".rtf"} THEN "documents"
    ELSE IF ext \in {".jpg", ".jpeg", ".png", ".gif", ".bmp", ".tiff"} THEN "images"
    ELSE IF ext \in {".xls", ".xlsx", ".csv"} THEN
        IF "billing" \in kws \/ "invoice" \in kws THEN "billing" ELSE "spreadsheets"
    ELSE IF ext \in {".ppt", ".pptx"} THEN "presentations"
    ELSE IF ext \in {".zip", ".rar", ".7z", ".tar", ".gz"} THEN "archives"
    ELSE IF ext \in {".exe", ".msi", ".app", ".bat", ".sh"} THEN "executables"
    ELSE IF ext \in {".py", ".js", ".html", ".css", ".java", ".cpp", ".c"} THEN "code"
    ELSE "other"

\* _categorize_file: ext is filepath.suffix.lower(), kws the keywords that
\* occur in str(filepath).lower()
_categorize_file(ext, kws) ==
    IF ext \in {".pdf", ".doc", ".docx", ".rtf"} THEN
        IF "contract" \in kws \/ "agreement" \in kws THEN "legal_contracts"
        ELSE IF "pleading" \in kws \/ "motion" \in kws THEN "legal_pleadings"
        ELSE IF "discovery" \in kws THEN "legal_discovery"
        ELSE IF "letter" \in kws THEN "legal_correspondence"
        ELSE "documents"
    ELSE IF ext \in {".jpg", ".jpeg", ".png", ".gif", ".bmp", ".tiff"} THEN "images"
    ELSE IF ext \in {".xls", ".xlsx", ".csv"} THEN
        IF "billing" \in kws \/ "invoice" \in kws THEN "billing" ELSE "spreadsheets"
    ELSE IF ext \in {".ppt", ".pptx"} THEN "presentations"
    ELSE IF ext \in {".zip", ".rar", ".7z", ".tar", ".gz"} THEN "archives"
    ELSE IF ext \in {".exe", ".msi", ".app", ".bat", ".sh"} THEN "executables"
    ELSE IF ext \in {".py", ".js", ".html", ".css", ".java", ".cpp", ".c"} THEN "code"
    ELSE "other"

\* _get_file_hash: the digest, or None (here "") when the file cannot be read
_get_file_hash(f) == IF f.fault = "hash" THEN "" ELSE Md5(f.content)

\* results as built before the try block, and the locals of the walk
FsResults0 ==
    [ total_files |-> 0, total_dirs |-> 0, total_size_bytes |-> 0,
      files_by_type |-> <<>>, files_by_category |-> <<>>, size_by_category |-> <<>>,
      directories |-> <<>>, duplicates |-> <<>>, organization_issues |-> <<>>,
      file_paths |-> <<>>, depth_analysis |-> <<>>, naming_patterns |-> <<>>,
      recommendations |-> <<>> ]

\* max_files is the argument; reachable tells whether os.walk can list
\* scan_path at all (os.walk swallows the error of an unreadable or missing
\* top directory and yields nothing).  kind, listed, special, disk and gone
\* record what the file system presents to the scan; the code does not read
\* them.
FsStart(max_files, reachable, kind) ==
    [ max_files |-> max_files, reachable |-> reachable, kind |-> kind,
      dir |-> 0, left |-> 0, listed |-> 0, special |-> 0,
      file_count |-> 0, file_hashes |-> <<>>, dir_structure |-> <<>>,
      disk |-> <<>>, gone |-> {},
      results |-> FsResults0 ]

\* for root, dirs, files in os.walk(...): the directory DirOrder[d] is
\* visited and lists n files
FsEnterDir(st, d, n) ==
    LET cur == CurrentDir(DirOrder[d]) IN
    [st EXCEPT
        !.dir = d, !.left = n, !.listed = @ + n,
        !.results.directories =
            IF n > 0
            THEN Put(@, cur, [file_count |-> n, total_size |-> 0,
                              depth |-> PartsDepth(DirOrder[d])])
            ELSE @ ]

\* A variant of AppendHash that groups an entry only with the entry scanned
\* just before it
AppendHashAdjacent(hashes, h, path) ==
    IF hashes # <<>> /\ hashes[Len(hashes)].hash = h
    THEN [hashes EXCEPT ![Len(hashes)].paths = Append(@, path)]
    ELSE Append(hashes, [hash |-> h, paths |-> <<path>>])

\* file_hashes[file_hash].append(str(filepath)) on an insertion-ordered dict
AppendHash(hashes, h, path) ==
    IF \E i \in 1..Len(hashes) : hashes[i].hash = h
    THEN [i \in 1..Len(hashes) |->
            IF hashes[i].hash = h
            THEN [hashes[i] EXCEPT !.paths = Append(@, path)]
            ELSE hashes[i]]
    ELSE Append(hashes, [hash |-> h, paths |-> <<path>>])


\* One iteration of "for filename in files" that gets past the max_files
\* check: the body of the loop for the file f, listed at position idx of the
\* current directory.
FsProcessFile(st, f) ==
    LET cur      == CurrentDir(DirOrder[st.dir])
        idx      == st.results.directories[cur].file_count - st.left + 1
        path     == [dir |-> cur, idx |-> idx]
        size     == SizeOf(f.content)
        category == _categorize_file(f.name.ext, f.name.kws)
        next     == [st EXCEPT !.left = @ - 1]
        \* lines 101-111: the counters updated before the entry is stored
        counted  == [next EXCEPT
                        !.results.total_files = @ + 1,
                        !.results.total_size_bytes = @ + size,
                        !.results.directories[cur].total_size = @ + size,
                        !.results.files_by_category = Bump(@, category, 1),
                        !.results.size_by_category = Bump(@, category, size),
                        !.results.files_by_type = Bump(@, f.name.ext, 1)]
        stored   == [counted EXCEPT
                        !.results.file_paths =
                            Append(@, [path |-> path, size |-> size,
                                       category |-> category,
                                       extension |-> f.name.ext, dir |-> cur,
                                       space |-> f.name.space, date |-> f.name.date])]
        h        == _get_file_hash(f)
        hashed   == IF size > MinDupSize /\ h # ""
                    THEN [stored EXCEPT !.file_hashes = AppendHash(@, h, path)]
                    ELSE stored
    IN  IF f.name.ext \in excluded_extensions THEN next        \* continue
        ELSE IF f.fault = "stat" THEN next                      \* except OSError
        ELSE IF f.fault = "mtime" THEN counted                  \* except Exception
        ELSE [hashed EXCEPT
                !.dir_structure = Bump(@, cur, 1),
                !.file_count = @ + 1]

\* if file_count >= max_files: break
FsBreak(st) == [st EXCEPT !.left = 0]

\* Path(p).stat().st_size when the duplicate groups are sized after the walk:
\* the file system is taken not to change during the scan, so the size is
\* the one recorded for the path when it was scanned.
StatSize(st, p) ==
    LET i == CHOOSE j \in 1..Len(st.results.file_paths) :
                st.results.file_paths[j].path = p
    IN  st.results.file_paths[i].size

\* A variant of DuplicateGroup that sizes every member, the kept copy included
DuplicateGroupAll(st, entry) ==
    [ hash |-> entry.hash,
      file_count |-> Len(entry.paths),
      total_size_bytes |->
          LET SizeAt(p) == StatSize(st, p) IN SumSeq(MapSeq(SizeAt, entry.paths)),
      paths |-> Take(entry.paths, PathsKept) ]

\* One pass of "for file_hash, paths in file_hashes.items()" (lines 149-158)
DuplicateGroup(st, entry) ==
    [ hash |-> entry.hash,
      file_count |-> Len(entry.paths),
      total_size_bytes |->
          LET SizeAt(p) == StatSize(st, p) IN SumSeq(MapSeq(SizeAt, Rest(entry.paths))),
      paths |-> Take(entry.paths, PathsKept) ]

\* The groups appended to results['duplicates'] from the first k entries of
\* file_hashes
RECURSIVE DuplicatesUpTo(_, _)
DuplicatesUpTo(st, k) ==
    IF k = 0 THEN <<>>
    ELSE LET e == st.file_hashes[k] IN
         DuplicatesUpTo(st, k - 1) \o
            (IF Len(e.paths) > 1 THEN <<DuplicateGroup(st, e)>> ELSE <<>>)

\* The first entry of file_hashes whose sizing raises because one of
\* paths[1:] is in gone (its stat() fails), or 0
FirstUnsizable(st, gone) ==
    LET bad == {k \in 1..Len(st.file_hashes) :
                   /\ Len(st.file_hashes[k].paths) > 1
                   /\ \E i \in 2..Len(st.file_hashes[k].paths) :
                         st.file_hashes[k].paths[i] \in gone}
    IN  IF bad = {} THEN 0 ELSE CHOOSE k \in bad : \A j \in bad : k <= j

\* A variant of _analyze_depth whose histogram counts the files of the
\* directories of a depth instead of the directories
_analyze_depth_per_file(dir_structure) ==
    LET dirs   == DOMAIN dir_structure
        depths == {SlashCount(d) : d \in dirs}
        dist   == [x \in depths |->
                      SumFn([d \in dirs |-> IF SlashCount(d) = x
                                             THEN dir_structure[d] ELSE 0], dirs)]
        maxd   == IF \E x \in depths : x > 0
                  THEN CHOOSE x \in depths : \A y \in depths : y <= x
                  ELSE 0
        total  == SumFn([d \in dirs |-> SlashCount(d)], dirs)
    IN  [ avg_depth |-> IF dirs # {} THEN [num |-> total, den |-> Cardinality(dirs)]
                        ELSE [num |-> 0, den |-> 1],
          max_depth |-> maxd,
          deep_folders |-> {d \in dirs : SlashCount(d) >= DeepFolderDepth},
          shallow_folders |->
              {d \in dirs : /\ SlashCount(d) < DeepFolderDepth
                            /\ SlashCount(d) <= 1
                            /\ dir_structure[d] > CrowdedFiles},
          optimal_depth |-> 3,
          depth_distribution |-> dist ]

\* _analyze_depth
_analyze_depth(dir_structure) ==
    LET dirs   == DOMAIN dir_structure
        depths == {SlashCount(d) : d \in dirs}
        dist   == [x \in depths |-> Cardinality({d \in dirs : SlashCount(d) = x})]
        maxd   == IF \E x \in depths : x > 0
                  THEN CHOOSE x \in depths : \A y \in depths : y <= x
                  ELSE 0
        total  == SumFn([d \in dirs |-> SlashCount(d)], dirs)
    IN  [ avg_depth |-> IF dirs # {} THEN [num |-> total, den |-> Cardinality(dirs)]
                        ELSE [num |-> 0, den |-> 1],
          max_depth |-> maxd,
          deep_folders |-> {d \in dirs : SlashCount(d) >= DeepFolderDepth},
          shallow_folders |->
              {d \in dirs : /\ SlashCount(d) < DeepFolderDepth
                            /\ SlashCount(d) <= 1
                            /\ dir_structure[d] > CrowdedFiles},
          optimal_depth |-> 3,
          depth_distribution |-> dist ]

\* _analyze_naming_patterns: the two percentages read downstream, each as
\* (count / total_sample) * 100 held as the fraction num/den
_analyze_naming_patterns(file_paths) ==
    LET sample == Take(file_paths, NamingSample)
        total_sample == IF sample # <<>> THEN Len(sample) ELSE 1
        HasDate(e)  == e.date
        HasSpace(e) == e.space
    IN  [ date_in_name |-> [num |-> Len(FilterSeq(HasDate, sample)) * 100,
                            den |-> total_sample],
          spaces_in_name |-> [num |-> Len(FilterSeq(HasSpace, sample)) * 100,
                              den |-> total_sample] ]

\* A variant of PctAbove that also holds at the limit itself
PctAtLeast(pct, limit) == pct.num >= limit * pct.den

\* pct > limit and pct < limit for a percentage held as num/den
PctAbove(pct, limit) == pct.num > limit * pct.den
PctBelow(pct, limit) == pct.num < limit * pct.den


\* The optional element of a list built by "if cond: xs.append(x)"
When(cond, x) == IF cond THEN <<x>> ELSE <<>>

\* sum(d['total_size_bytes'] for d in duplicates)
TotalDuplicateSize(duplicates) ==
    LET Waste(d) == d.total_size_bytes IN SumSeq(MapSeq(Waste, duplicates))

\* _detect_organization_issues.  "shown" holds the numbers that the
\* description string of the Finding is formatted from.
_detect_organization_issues(results) ==
    LET root_files == Get(Get(results.directories, <<"root">>, <<>>), "file_count", 0)
        max_depth  == Get(results.depth_analysis, "max_depth", 0)
        shallow    == Get(results.depth_analysis, "shallow_folders", {})
        naming     == results.naming_patterns
        spaces     == Get(naming, "spaces_in_name", [num |-> 0, den |-> 1])
        dates      == Get(naming, "date_in_name", [num |-> 0, den |-> 1])
        duplicates == results.duplicates
    IN  When(root_files > RootFilesLimit,
             [severity |-> "high", issue |-> "too_many_root_files",
              shown |-> <<root_files>>])
        \o When(max_depth >= DeepIssueDepth,
             [severity |-> "medium", issue |-> "folder_depth_too_deep",
              shown |-> <<max_depth>>])
        \o When(Cardinality(shallow) > ShallowLimit,
             [severity |-> "medium", issue |-> "overcrowded_top_level",
              shown |-> <<Cardinality(shallow)>>])
        \o When(PctAbove(spaces, SpacesLimit),
             [severity |-> "low", issue |-> "spaces_in_filenames",
              shown |-> <<spaces.num, spaces.den>>])
        \o When(duplicates # <<>>,
             [severity |-> "medium", issue |-> "duplicate_files",
              shown |-> <<Len(duplicates), TotalDuplicateSize(duplicates)>>])
        \o When(PctBelow(dates, DatesLimit),
             [severity |-> "low", issue |-> "missing_dates_in_filenames",
              shown |-> <<dates.num, dates.den>>])

\* Python's order on the priority strings: 'high' < 'low' < 'medium'
StrRank(p) == CASE p = "high" -> 1 [] p = "low" -> 2 [] p = "medium" -> 3 [] OTHER -> 0

\* key=lambda x: x['priority'] of the per-source synthesizers
PriorityString(x) == StrRank(x.priority)

\* sorted(recommendations, key=lambda x: x['priority'], reverse=True)
SortByPriorityString(recs) == SortDesc(PriorityString, recs)

Rec(priority, area, tenths, difficulty) ==
    [ priority |-> priority, area |-> area,
      estimated_time_savings_hours_per_week |-> tenths, difficulty |-> difficulty ]

\* _generate_file_recommendations
_generate_file_recommendations(results) ==
    LET duplicates    == results.duplicates
        max_depth     == Get(results.depth_analysis, "max_depth", 0)
        spaces        == Get(results.naming_patterns, "spaces_in_name",
                             [num |-> 0, den |-> 1])
        total_files   == results.total_files
        uncategorized == Get(results.files_by_category, "other", 0)
    IN  SortByPriorityString(
            When(duplicates # <<>>, Rec("high", "duplicate_cleanup", 5, "easy"))
            \o When(max_depth >= DeepFolderDepth,
                    Rec("medium", "folder_structure", 10, "medium"))
            \o When(PctAbove(spaces, SpacesLimit),
                    Rec("low", "naming_convention", 2, "easy"))
            \o When(total_files > 0 /\ uncategorized * 10 > 3 * total_files,
                    Rec("medium", "file_categorization", 20, "medium")))

\* Lines 148-181 of scan_filesystem: everything after the walk.  gone is the
\* set of scanned paths whose stat() raises when the groups are sized.
FsSeal(st, gone) ==
    LET k == FirstUnsizable(st, gone) IN
    IF k # 0 THEN
        \* except Exception: results['error'], scan_complete False
        [ f \in DOMAIN st.results \cup {"error", "scan_complete"} |->
            CASE f = "error" -> "stat failed"
              [] f = "scan_complete" -> FALSE
              [] f = "duplicates" -> DuplicatesUpTo(st, k - 1)
              [] OTHER -> st.results[f] ]
    ELSE
        LET r1 == [st.results EXCEPT
                      !.duplicates = DuplicatesUpTo(st, Len(st.file_hashes)),
                      !.depth_analysis = _analyze_depth(st.dir_structure),
                      !.naming_patterns = _analyze_naming_patterns(st.results.file_paths)]
            r2 == [r1 EXCEPT !.organization_issues = _detect_organization_issues(r1)]
            r3 == [r2 EXCEPT !.recommendations = _generate_file_recommendations(r2)]
        IN  [ f \in DOMAIN r3 \cup {"scan_complete"} |->
                IF f = "scan_complete" THEN TRUE ELSE r3[f] ]


-----------------------------------------------------------------------------
(* cloud_scanner.py: CloudScanner *)

\* Bounds of the model Drive
MaxPage == 2            \* files in one page of the listing
MaxCalls == 2           \* files().list() requests answered in one scan

\* Program constants
PageSizeCap == 1000     \* pageSize=min(1000, max_files - file_count)
StorageIssuePct == 80   \* usage_percent > 80
StorageRecPct == 70     \* usage_percent > 70
SharedIssueLimit == 50  \* len(shared_files) > 50
FolderRecLimit == 50    \* total_folders > 50
SharedRecLimit == 20    \* len(shared_files) > 20

FolderMime == "application/vnd.google-apps.folder"

GoogleAppsMimes ==
    { FolderMime, "application/vnd.google-apps.document",
      "application/vnd.google-apps.spreadsheet",
      "application/vnd.google-apps.presentation",
      "application/vnd.google-apps.form", "application/vnd.google-apps.drawing" }

ImageMimes == {"image/png", "image/jpeg", "image/gif"}

\* _categorize_drive_file: mime_type is the mimeType, kws the keywords that
\* occur in the lower-cased name
_categorize_drive_file(mime_type, kws) ==
    IF mime_type \in GoogleAppsMimes THEN
        IF mime_type = "application/vnd.google-apps.document" THEN "google_docs"
        ELSE IF mime_type = "application/vnd.google-apps.spreadsheet" THEN "google_sheets"
        ELSE IF mime_type = "application/vnd.google-apps.presentation" THEN "google_slides"
        ELSE IF mime_type = "application/vnd.google-apps.form" THEN "google_forms"
        ELSE "google_files"
    ELSE IF mime_type = "application/pdf" THEN
        IF "contract" \in kws \/ "agreement" \in kws THEN "legal_contracts"
        ELSE IF "pleading" \in kws \/ "motion" \in kws THEN "legal_pleadings"
        ELSE IF "discovery" \in kws THEN "legal_discovery"
        ELSE "documents"
    ELSE IF mime_type \in
            {"application/msword",
             "application/vnd.openxmlformats-officedocument.wordprocessingml.document"}
        THEN "documents"
    ELSE IF mime_type \in
            {"application/vnd.ms-excel",
             "application/vnd.openxmlformats-officedocument.spreadsheetml.sheet"}
        THEN IF "billing" \in kws \/ "invoice" \in kws THEN "billing" ELSE "spreadsheets"
    ELSE IF mime_type \in
            {"application/vnd.ms-powerpoint",
             "application/vnd.openxmlformats-officedocument.presentationml.presentation"}
        THEN "presentations"
    ELSE IF mime_type \in ImageMimes THEN "images"
    ELSE IF mime_type \in
            {"application/zip", "application/x-zip-compressed",
             "application/x-rar-compressed", "application/x-7z-compressed"}
        THEN "archives"
    ELSE "other"

\* The items a page of the model Drive can hold
DriveFolder == [mimeType |-> FolderMime, kws |-> {}, size |-> 0, shared |-> FALSE]
DrivePdf == [mimeType |-> "application/pdf", kws |-> {"contract"}, size |-> 10,
             shared |-> FALSE]
DriveBin == [mimeType |-> "application/octet-stream", kws |-> {}, size |-> 20,
             shared |-> TRUE]
DriveItems == {DriveFolder, DrivePdf, DriveBin}

\* The storageQuota answers of the model provider: 'limit' and 'usage' are
\* present or left out (Drive leaves 'limit' out for unlimited storage)
QuotaLimits == {0, 5, 1000}
QuotaUsages == {0, 4, 5, 800, 801}
QuotaAnswers ==
    { <<>>, [usage |-> 5], [limit |-> 1000] }
    \cup { [limit |-> l, usage |-> u] : l \in QuotaLimits, u \in QuotaUsages }

DrResults0 ==
    [ provider |-> "google_drive", total_files |-> 0, total_folders |-> 0,
      total_size_bytes |-> 0, files_by_type |-> <<>>, files_by_category |-> <<>>,
      folders |-> {}, orphaned_files |-> <<>>, shared_files |-> <<>>,
      duplicates |-> <<>>, organization_issues |-> <<>>, file_paths |-> <<>>,
      recommendations |-> <<>>, quota_info |-> <<>> ]

\* auth_ok: auth_data holds a 'service'.  answered, quota, crashed, calls and
\* oversize record what the provider answered; the code does not read them.
DrStart(max_files, auth_ok) ==
    [ max_files |-> max_files, auth_ok |-> auth_ok,
      answered |-> FALSE, quota |-> <<>>, crashed |-> FALSE,
      page_token |-> FALSE, file_count |-> 0, all_files |-> <<>>,
      calls |-> 0, oversize |-> FALSE, results |-> DrResults0 ]

\* except Exception as e: results['error'] = str(e); scan_complete = False
SealFailed(results, msg) ==
    [ f \in DOMAIN results \cup {"error", "scan_complete"} |->
        CASE f = "error" -> msg [] f = "scan_complete" -> FALSE [] OTHER -> results[f] ]

SealComplete(results) ==
    [ f \in DOMAIN results \cup {"scan_complete"} |->
        IF f = "scan_complete" THEN TRUE ELSE results[f] ]

\* Lines 61-74 raise: auth_data holds no 'service', the about() request
\* fails (answered is false), or int(quota.get('limit', 1)) is 0
DrAboutFails(st, answered, quota) ==
    \/ ~st.auth_ok
    \/ ~answered
    \/ Get(quota, "limit", 1) = 0                            \* ZeroDivisionError

\* Lines 61-74 when nothing raises: quota is the storageQuota dict

DrAbout(st, quota) ==
    [st EXCEPT
        !.quota = quota,
        !.results.quota_info =
            [ limit_bytes |-> Get(quota, "limit", 0),
              usage_bytes |-> Get(quota, "usage", 0),
              usage_percent |-> [num |-> Get(quota, "usage", 0) * 100,
                                 den |-> Get(quota, "limit", 1)] ]]

\* pageSize=min(1000, max_files - file_count)
PageSize(st) == Min(PageSizeCap, st.max_files - st.file_count)

\* Lines 91-95: one answered files().list() request
DrPage(st, files, next) ==
    [st EXCEPT
        !.all_files = @ \o files,
        !.file_count = @ + Len(files),
        !.page_token = next,
        !.calls = @ + 1,
        !.oversize = @ \/ Len(files) > PageSize(st)]

\* Lines 106-148: one pass of "for file_info in all_files", for item i
DrAnalyzeItem(results, item, i) ==
    IF item.mimeType = FolderMime
    THEN [results EXCEPT !.total_folders = @ + 1, !.folders = @ \cup {i}]
    ELSE LET category == _categorize_drive_file(item.mimeType, item.kws) IN
         [results EXCEPT
            !.total_files = @ + 1,
            !.total_size_bytes = @ + item.size,
            !.files_by_category = Bump(@, category, 1),
            !.files_by_type = Bump(@, item.mimeType, 1),
            !.shared_files = IF item.shared THEN Append(@, i) ELSE @,
            !.file_paths = Append(@, [path |-> i, size |-> item.size,
                                      category |-> category,
                                      mime_type |-> item.mimeType,
                                      shared |-> item.shared])]

RECURSIVE DrAnalyzeItems(_, _, _)
DrAnalyzeItems(results, all_files, k) ==
    IF k = 0 THEN results
    ELSE DrAnalyzeItem(DrAnalyzeItems(results, all_files, k - 1), all_files[k], k)

\* _detect_drive_issues
_detect_drive_issues(results) ==
    LET quota         == results.quota_info
        usage_percent == Get(quota, "usage_percent", [num |-> 0, den |-> 1])
        uncategorized == Get(results.files_by_category, "other", 0)
        shared_files  == results.shared_files
    IN  When(PctAbove(usage_percent, StorageIssuePct),
             [severity |-> "high", issue |-> "high_storage_usage",
              shown |-> <<usage_percent.num, usage_percent.den>>])
        \o When(uncategorized * 10 > 2 * Max(results.total_files, 1),
             [severity |-> "medium", issue |-> "many_uncategorized_files",
              shown |-> <<uncategorized, results.total_files>>])
        \o When(Len(shared_files) > SharedIssueLimit,
             [severity |-> "medium", issue |-> "excessive_shared_files",
              shown |-> <<Len(shared_files)>>])

\* _generate_drive_recommendations
_generate_drive_recommendations(results) ==
    LET usage_percent == Get(results.quota_info, "usage_percent", [num |-> 0, den |-> 1])
    IN  SortByPriorityString(
            When(PctAbove(usage_percent, StorageRecPct),
                 Rec("high", "storage_optimization", 5, "easy"))
            \o When(results.total_folders > FolderRecLimit,
                    Rec("medium", "folder_organization", 5, "medium"))
            \o When(Len(results.shared_files) > SharedRecLimit,
                    Rec("low", "security", 0, "easy"))
            \o When(Get(results.files_by_category, "other", 0) > 0,
                    Rec("low", "naming_convention", 10, "easy")))

\* Lines 105-156: the analysis of all_files, the Findings, the
\* Recommendations and the seal
DrSeal(st) ==
    LET r1 == DrAnalyzeItems(st.results, st.all_files, Len(st.all_files))
        r2 == [r1 EXCEPT !.organization_issues = _detect_drive_issues(r1)]
        r3 == [r2 EXCEPT !.recommendations = _generate_drive_recommendations(r2)]
    IN  SealComplete(r3)

-----------------------------------------------------------------------------
(* The filesystem scan as a state machine *)

IdleFs == [results |-> FsResults0]
IdleDr == [results |-> <<>>]
IdleEm == [results |-> <<>>]
IdleReq == [flags |-> <<>>]
IdleResults == <<>>
IdleAn == [time_savings |-> <<>>]
IdleDq == [responses |-> <<>>]
IdleTk == [tokens |-> <<>>]

\* The values of max_files the scan is called with
MaxFilesArgs == {2, DefaultMaxFiles}

FsInit ==
    /\ fs_pc = "walk"
    /\ fs \in {FsStart(m, r, k) : m \in MaxFilesArgs, r \in BOOLEAN, k \in DiskKinds}

\* os.walk yields the next directory that holds files (or an empty one)
FsWalkDir ==
    /\ fs_pc = "walk" /\ fs.reachable /\ fs.left = 0
    /\ \E d \in (fs.dir + 1)..Len(DirOrder), n \in 0..(ListedBound(fs.kind) - fs.listed) :
          fs' = FsEnterDir(fs, d, n)
    /\ UNCHANGED fs_pc

\* One iteration of the loop over the files of the current directory
FsWalkFile ==
    /\ fs_pc = "walk" /\ fs.left > 0 /\ fs.file_count < fs.max_files
    /\ \E f \in FilePool(fs.kind, fs.special) :
          LET cur  == CurrentDir(DirOrder[fs.dir])
              path == [dir |-> cur,
                       idx |-> fs.results.directories[cur].file_count - fs.left + 1]
          IN  fs' = [FsProcessFile(fs, f) EXCEPT
                        !.special = IF f \in SpecialFiles THEN @ + 1 ELSE @,
                        !.disk = Append(@, [path |-> path, file |-> f])]
    /\ UNCHANGED fs_pc

\* The max_files check stops the loop over the current directory
FsWalkBreak ==
    /\ fs_pc = "walk" /\ fs.left > 0 /\ fs.file_count >= fs.max_files
    /\ fs' = FsBreak(fs)
    /\ UNCHANGED fs_pc

\* The paths handed to stat() when the groups are sized
HashedPaths(st) ==
    UNION {SeqToSet(st.file_hashes[k].paths) : k \in 1..Len(st.file_hashes)}

\* The walk is over: duplicates are sized, the report is analysed and sealed
FsFinish ==
    /\ fs_pc = "walk" /\ fs.left = 0
    /\ \E gone \in SUBSET HashedPaths(fs) :
          /\ Cardinality(gone) <= (IF fs.kind = "copies" THEN 0 ELSE MaxSpecial - fs.special)
          /\ fs' = [fs EXCEPT !.results = FsSeal(fs, gone), !.gone = gone]
    /\ fs_pc' = "sealed"

FsNext == FsWalkDir \/ FsWalkFile \/ FsWalkBreak \/ FsFinish

InitFS ==
    /\ FsInit
    /\ dr_pc = "idle" /\ dr = IdleDr
    /\ em_pc = "idle" /\ em = IdleEm
    /\ pc = "idle" /\ req = IdleReq /\ scan_results = IdleResults
    /\ an_pc = "idle" /\ an = IdleAn
    /\ dq_pc = "idle" /\ dq = IdleDq
    /\ tk_pc = "idle" /\ tk = IdleTk

NextFS ==
    \/ FsWalkDir /\ UNCHANGED <<drVars, emVars, coVars, anVars, dqVars, tkVars>>
    \/ FsWalkFile /\ UNCHANGED <<drVars, emVars, coVars, anVars, dqVars, tkVars>>
    \/ FsWalkBreak /\ UNCHANGED <<drVars, emVars, coVars, anVars, dqVars, tkVars>>
    \/ FsFinish /\ UNCHANGED <<drVars, emVars, coVars, anVars, dqVars, tkVars>>

SpecFS == InitFS /\ [][NextFS]_vars


-----------------------------------------------------------------------------
(* The Drive scan as a state machine *)

DrInit ==
    /\ dr_pc = "about"
    /\ dr \in {DrStart(m, a) : m \in MaxFilesArgs, a \in BOOLEAN}

\* service = self.auth_data['service'] and the about() request
DrAboutStep ==
    /\ dr_pc = "about"
    /\ \E answered \in BOOLEAN, quota \in QuotaAnswers :
          IF DrAboutFails(dr, answered, quota)
          THEN /\ dr' = [dr EXCEPT !.answered = answered,
                                   !.quota = IF answered THEN quota ELSE <<>>,
                                   !.results =
                                      SealFailed(@, IF ~dr.auth_ok THEN "no service"
                                                    ELSE IF ~answered THEN "about failed"
                                                    ELSE "division by zero")]
               /\ dr_pc' = "sealed"
          ELSE /\ dr' = [DrAbout(dr, quota) EXCEPT !.answered = TRUE]
               /\ dr_pc' = "list"

\* The pages the model provider answers a request with: up to MaxPage items
\* of one kind
Pages == {[i \in 1..n |-> item] : n \in 0..MaxPage, item \in DriveItems}

\* while file_count < max_files: one answered request
DrListPage ==
    /\ dr_pc = "list" /\ dr.file_count < dr.max_files /\ dr.calls < MaxCalls
    /\ \E files \in Pages, next \in BOOLEAN :
          /\ next => dr.calls + 1 < MaxCalls
          /\ dr' = DrPage(dr, files, next)
          /\ dr_pc' = IF next THEN "list" ELSE "analyze"

\* while file_count < max_files: the loop condition fails
DrListFull ==
    /\ dr_pc = "list" /\ dr.file_count >= dr.max_files
    /\ dr_pc' = "analyze"
    /\ UNCHANGED dr

\* except HttpError: break
DrListHttpError ==
    /\ dr_pc = "list" /\ dr.file_count < dr.max_files /\ dr.calls < MaxCalls
    /\ dr' = [dr EXCEPT !.calls = @ + 1]
    /\ dr_pc' = "analyze"

\* The request raises something that is no HttpError: the outer except
DrListCrash ==
    /\ dr_pc = "list" /\ dr.file_count < dr.max_files /\ dr.calls < MaxCalls
    /\ dr' = [dr EXCEPT !.calls = @ + 1, !.crashed = TRUE,
                        !.results = SealFailed(@, "list failed")]
    /\ dr_pc' = "sealed"

\* The listing is over: analysis, Findings, Recommendations, seal
DrFinish ==
    /\ dr_pc = "analyze"
    /\ dr' = [dr EXCEPT !.results = DrSeal(dr)]
    /\ dr_pc' = "sealed"

InitDrive ==
    /\ DrInit
    /\ fs_pc = "idle" /\ fs = IdleFs
    /\ em_pc = "idle" /\ em = IdleEm
    /\ pc = "idle" /\ req = IdleReq /\ scan_results = IdleResults
    /\ an_pc = "idle" /\ an = IdleAn
    /\ dq_pc = "idle" /\ dq = IdleDq
    /\ tk_pc = "idle" /\ tk = IdleTk

NextDrive ==
    \/ DrAboutStep /\ UNCHANGED <<fsVars, emVars, coVars, anVars, dqVars, tkVars>>
    \/ DrListPage /\ UNCHANGED <<fsVars, emVars, coVars, anVars, dqVars, tkVars>>
    \/ DrListFull /\ UNCHANGED <<fsVars, emVars, coVars, anVars, dqVars, tkVars>>
    \/ DrListHttpError /\ UNCHANGED <<fsVars, emVars, coVars, anVars, dqVars, tkVars>>
    \/ DrListCrash /\ UNCHANGED <<fsVars, emVars, coVars, anVars, dqVars, tkVars>>
    \/ DrFinish /\ UNCHANGED <<fsVars, emVars, coVars, anVars, dqVars, tkVars>>

SpecDrive == InitDrive /\ [][NextDrive]_vars

-----------------------------------------------------------------------------
(* Claims about the filesystem scan *)

FsSealed == fs_pc = "sealed"
FsComplete == FsSealed /\ Get(fs.results, "scan_complete", FALSE)

\* The entries of the disk whose content the scan fingerprinted: iterated,
\* not excluded, readable, and longer than the threshold; in scan order
FsFingerprinted ==
    LET Ok(e) == /\ e.file.name.ext \notin excluded_extensions
                 /\ e.file.fault = "none"
                 /\ SizeOf(e.file.content) > MinDupSize
    IN  FilterSeq(Ok, fs.disk)

\* The entries of the disk that the scan recorded (file_paths), in scan order
FsScanned ==
    LET Ok(e) == /\ e.file.name.ext \notin excluded_extensions
                 /\ e.file.fault \in {"none", "hash"}
    IN  FilterSeq(Ok, fs.disk)

\* The paths of the fingerprinted entries whose content is c, in scan order
FsCopies(c) ==
    LET Same(e) == e.file.content = c
        PathOf(e) == e.path
    IN  MapSeq(PathOf, FilterSeq(Same, FsFingerprinted))

FsGroups == fs.results.duplicates

ScannedSize(p) == StatSize(fs, p)

C6_Original ==
    (FsSealed /\ fs.reachable /\ fs.listed = 0) =>
        /\ Get(fs.results, "scan_complete", FALSE)
        /\ fs.results.organization_issues = <<>>
        /\ fs.results.recommendations = <<>>

\* C5 as claimed, for the filesystem scanner: when scan_path cannot be listed
\* at all the report is sealed with scan_complete false and an error message,
\* and a report sealed with scan_complete true carries no error message.
C5_Original ==
    FsSealed =>
        /\ ~fs.reachable =>
              /\ ~Get(fs.results, "scan_complete", TRUE)
              /\ "error" \in DOMAIN fs.results
        /\ Get(fs.results, "scan_complete", FALSE) => "error" \notin DOMAIN fs.results


-----------------------------------------------------------------------------
(* Claims about the Drive scan *)

DrSealed == dr_pc = "sealed"
DrComplete == DrSealed /\ Get(dr.results, "scan_complete", FALSE)

\* The Findings of the Drive report of kind k
DrFindings(k) ==
    LET IsKind(f) == f.issue = k IN FilterSeq(IsKind, dr.results.organization_issues)

\* C7: in a completed Drive scan whose storageQuota reports usage U and a
\* limit L > 0, there is a high_storage_usage Finding exactly when U/L > 4/5;
\* there is then one such Finding and its severity is high; at exactly 80%
\* there is none.
C7_HighStorageUsage ==
    (DrComplete /\ Get(dr.quota, "limit", 0) > 0) =>
        LET U == Get(dr.quota, "usage", 0)
            L == dr.quota.limit
        IN  /\ (5 * U > 4 * L) => /\ Len(DrFindings("high_storage_usage")) = 1
                                  /\ DrFindings("high_storage_usage")[1].severity = "high"
            /\ (5 * U <= 4 * L) => DrFindings("high_storage_usage") = <<>>

\* A completed Drive scan at 80.1% usage that holds the Finding
C7_Witness ==
    /\ DrComplete
    /\ Get(dr.quota, "limit", 0) = 1000 /\ Get(dr.quota, "usage", 0) = 801
    /\ Len(DrFindings("high_storage_usage")) = 1

\* C8 as claimed: when the provider answers and the quota limit is zero or
\* not reported, or no file is listed, the Drive report is sealed with
\* scan_complete true and holds neither a high_storage_usage nor a
\* many_uncategorized_files Finding (for a zero file count: no
\* many_uncategorized_files Finding).
C8_Original ==
    (DrSealed /\ dr.auth_ok /\ dr.answered /\ ~dr.crashed) =>
        /\ Get(dr.quota, "limit", 0) = 0 =>
              /\ Get(dr.results, "scan_complete", FALSE)
              /\ DrFindings("high_storage_usage") = <<>>
        /\ dr.results.total_files = 0 =>
              /\ Get(dr.quota, "limit", 1) # 0 => Get(dr.results, "scan_complete", FALSE)
              /\ DrFindings("many_uncategorized_files") = <<>>

-----------------------------------------------------------------------------
(* src/email_scanner.py: EmailScanner *)

\* The longest list of template candidates the model mailbox yields
MaxTemplates == 2

LabelsKept == 20
SlowResponseHours == 24
FolderRecCount == 20

\* The sequences over S of length at most n
SeqsUpTo(S, n) == UNION {[1..k -> S] : k \in 0..n}

\* What the Gmail API answers to one scan: whether getProfile and
\* labels().list answer at all, the number of labels (each of more than 10
\* messages), the confidences of the template candidates that
\* _identify_template_candidates finds, and the average response time in
\* hours that _analyze_response_times measures
Mailboxes ==
    { [profile_ok |-> FALSE, labels |-> 0, templates |-> <<>>,
       avg_response_time_hours |-> 0] }
    \cup { [profile_ok |-> TRUE, labels |-> l, templates |-> t,
            avg_response_time_hours |-> a] :
              l \in {0, LabelsKept + 1},
              t \in SeqsUpTo({"high", "medium"}, MaxTemplates),
              a \in {0, SlowResponseHours, SlowResponseHours + 1} }

EmResults0 ==
    [ provider |-> "gmail", total_emails_analyzed |-> 0, folders |-> {},
      patterns |-> <<>>, workflows |-> <<>>, inefficiencies |-> <<>>,
      recommendations |-> <<>> ]

\* _generate_email_recommendations
_generate_email_recommendations(results) ==
    LET templates == Get(Get(results, "email_patterns", <<>>),
                         "template_candidates", <<>>)
        IsHigh(t) == t.confidence = "high"
        high_confidence == FilterSeq(IsHigh, templates)
        response_time == Get(Get(results, "response_analysis", <<>>),
                             "avg_response_time_hours", 0)
    IN  SortByPriorityString(
            When(templates # <<>> /\ high_confidence # <<>>,
                 Rec("high", "email_templates", Len(high_confidence) * 5, "easy"))
            \o When(response_time > SlowResponseHours,
                    Rec("medium", "response_time", 10, "easy"))
            \o When(Cardinality(results.folders) > FolderRecCount,
                    Rec("medium", "organization", 5, "easy")))

\* scan_gmail on the mailbox mb
scan_gmail(mb) ==
    IF ~mb.profile_ok THEN SealFailed(EmResults0, "profile failed")
    ELSE
        LET Candidate(c) == [confidence |-> c]
            base == [ f \in DOMAIN EmResults0 \cup
                            {"folder_count", "email_patterns", "response_analysis"} |->
                        CASE f = "folder_count" -> mb.labels
                          [] f = "folders" -> 1..Min(mb.labels, LabelsKept)
                          [] f = "email_patterns" ->
                                [template_candidates |-> MapSeq(Candidate, mb.templates)]
                          [] f = "response_analysis" ->
                                [avg_response_time_hours |-> mb.avg_response_time_hours]
                          [] OTHER -> EmResults0[f] ]
        IN  SealComplete([base EXCEPT
                            !.recommendations = _generate_email_recommendations(base)])

-----------------------------------------------------------------------------
(* src/system_coordinator.py: SystemCoordinator *)

\* scan_filesystem() run to its end on a Documents folder.  listing[d] is
\* the list of files os.walk yields for DirOrder[d].
RECURSIVE FsScanFiles(_, _)
FsScanFiles(st, files) ==
    IF files = <<>> THEN st
    ELSE IF st.file_count >= st.max_files THEN FsBreak(st)
    ELSE LET f    == Head(files)
             cur  == CurrentDir(DirOrder[st.dir])
             path == [dir |-> cur,
                      idx |-> st.results.directories[cur].file_count - st.left + 1]
         IN  FsScanFiles([FsProcessFile(st, f) EXCEPT
                             !.special = IF f \in SpecialFiles THEN @ + 1 ELSE @,
                             !.disk = Append(@, [path |-> path, file |-> f])],
                         Tail(files))

RECURSIVE FsScanDirs(_, _, _)
FsScanDirs(st, listing, d) ==
    IF d > Len(listing) THEN st
    ELSE FsScanDirs(FsScanFiles(FsEnterDir(st, d, Len(listing[d])), listing[d]),
                    listing, d + 1)

scan_filesystem(folder) ==
    LET walked == FsScanDirs(FsStart(DefaultMaxFiles, TRUE, "documents"),
                             folder.listing, 1)
    IN  [walked EXCEPT !.results = FsSeal(walked, folder.gone), !.gone = folder.gone]

\* The Documents folders of the model: empty; two copies of one contract;
\* a note and a contract; RootFilesLimit + 1 temporary files in the top
\* directory; two copies of which the second is deleted during the scan
ContractFile == [name |-> NameContract, content |-> 2, fault |-> "none"]
NotesFile == [name |-> NameNotes, content |-> 3, fault |-> "none"]
TmpFile == [name |-> NameTmp, content |-> 2, fault |-> "none"]
DocumentsFolders ==
    { [listing |-> << <<>>, <<>> >>, gone |-> {}],
      [listing |-> << <<ContractFile, ContractFile>>, <<>> >>, gone |-> {}],
      [listing |-> << <<NotesFile>>, <<ContractFile>> >>, gone |-> {}],
      [listing |-> << [i \in 1..(RootFilesLimit + 1) |-> TmpFile], <<>> >>, gone |-> {}],
      [listing |-> << <<ContractFile, ContractFile>>, <<>> >>,
       gone |-> {[dir |-> <<"root">>, idx |-> 2]}] }

\* scan_google_drive() run to its end on a Drive account: the about()
\* answer, the pages that files().list() answers with, and how the listing
\* ends ("done": no nextPageToken; "http_error"; "crash": another exception)
RECURSIVE DrListPages(_, _, _)
DrListPages(st, pages, more) ==
    IF pages = <<>> \/ st.file_count >= st.max_files THEN st
    ELSE DrListPages(DrPage(st, Head(pages), more \/ Len(pages) > 1),
                     Tail(pages), more)

scan_google_drive(account) ==
    LET st0 == DrStart(DefaultMaxFiles, TRUE) IN
    IF DrAboutFails(st0, account.answered, account.quota)
    THEN [st0 EXCEPT !.answered = account.answered,
                     !.quota = IF account.answered THEN account.quota ELSE <<>>,
                     !.results = SealFailed(@, IF ~account.answered THEN "about failed"
                                               ELSE "division by zero")]
    ELSE LET listed == DrListPages([DrAbout(st0, account.quota) EXCEPT !.answered = TRUE],
                                   account.pages, account.ending # "done")
         IN  IF account.ending = "crash"
             THEN [listed EXCEPT !.calls = @ + 1, !.crashed = TRUE,
                                 !.results = SealFailed(@, "list failed")]
             ELSE [listed EXCEPT !.results = DrSeal(listed)]

\* The Drive accounts of the model
DriveAccounts ==
    { [answered |-> FALSE, quota |-> <<>>, pages |-> <<>>, ending |-> "done"],
      [answered |-> TRUE, quota |-> [limit |-> 0, usage |-> 0],
       pages |-> <<>>, ending |-> "done"],
      [answered |-> TRUE, quota |-> [limit |-> 1000, usage |-> 0],
       pages |-> << <<DrivePdf>> >>, ending |-> "done"],
      [answered |-> TRUE, quota |-> [limit |-> 1000, usage |-> 800],
       pages |-> << <<>> >>, ending |-> "done"],
      [answered |-> TRUE, quota |-> [limit |-> 1000, usage |-> 801],
       pages |-> << <<DriveBin, DriveBin>>, <<DrivePdf>> >>, ending |-> "done"],
      [answered |-> TRUE, quota |-> [limit |-> 1000, usage |-> 0],
       pages |-> << <<DriveBin>> >>, ending |-> "http_error"],
      [answered |-> TRUE, quota |-> [limit |-> 1000, usage |-> 801],
       pages |-> << <<DriveBin>> >>, ending |-> "crash"] }

\* None; like an empty dict it is falsy in "if module and ..."
None == <<>>

Truthy(module) == DOMAIN module # {}

\* module and module.get('scan_complete')
SealedTrue(module) == Truthy(module) /\ Get(module, "scan_complete", FALSE)

\* self.scan_results as run_full_analysis builds it before the first scan
ScanResults0 ==
    [ scan_summary |-> [ modules_scanned |-> <<>>, total_findings |-> 0,
                         total_recommendations |-> 0,
                         total_time_savings_estimate |-> 0 ],
      email_analysis |-> None, filesystem_analysis |-> None,
      cloud_analysis |-> None, consolidated_findings |-> None,
      ai_insights |-> None, prioritized_recommendations |-> None ]

\* The keys of scan_results that hold the reports, in the order of
\* "modules = [...]"
ModuleKeys == <<"email_analysis", "filesystem_analysis", "cloud_analysis">>

\* self.scan_results[key] = report; modules_scanned.append(name)
StoreReport(sr, key, name, report) ==
    [sr EXCEPT ![key] = report,
               !.scan_summary.modules_scanned = Append(@, name)]

\* A variant of SeverityBucket that files high Findings under medium
SeverityBucketNoHigh(severity) ==
    CASE severity = "critical" -> "critical_issues"
      [] severity = "high" -> "medium_priority_issues"
      [] severity = "medium" -> "medium_priority_issues"
      [] OTHER -> "low_priority_issues"

\* The if/elif chain of _consolidate_findings: the bucket of a severity
SeverityBucket(severity) ==
    CASE severity = "critical" -> "critical_issues"
      [] severity = "high" -> "high_priority_issues"
      [] severity = "medium" -> "medium_priority_issues"
      [] OTHER -> "low_priority_issues"

\* combined_issue for every issue of one module, or nothing when the module
\* is None or not sealed with scan_complete true
CombinedIssues(module) ==
    IF SealedTrue(module)
    THEN LET Combine(issue) ==
                 [ module |-> Get(module, "provider", "unknown"),
                   severity |-> Get(issue, "severity", "low"),
                   issue |-> issue.issue,
                   shown |-> issue.shown ]
         IN  MapSeq(Combine, Get(module, "organization_issues", <<>>))
    ELSE <<>>

\* _consolidate_findings
_consolidate_findings(sr) ==
    LET all == CombinedIssues(sr[ModuleKeys[1]]) \o CombinedIssues(sr[ModuleKeys[2]])
               \o CombinedIssues(sr[ModuleKeys[3]])
        Bucket(b) == LET Goes(i) == SeverityBucket(i.severity) = b
                     IN  FilterSeq(Goes, all)
    IN  [ critical_issues |-> Bucket("critical_issues"),
          high_priority_issues |-> Bucket("high_priority_issues"),
          medium_priority_issues |-> Bucket("medium_priority_issues"),
          low_priority_issues |-> Bucket("low_priority_issues"),
          opportunities |-> <<>>, security_concerns |-> <<>> ]

\* How the call of the model service ends: it answers with a text, or
\* get_moonshot_client() raises, or the request raises, or the response has
\* no choices[0].message.content to strip
AiOutcomes == {"answered", "no_client", "request_failed", "malformed"}

\* The value 'except Exception' returns
AiFallback ==
    [error |-> "AI analysis failed", summary |-> "unable",
     key_patterns |-> <<>>, unusual_workflows |-> <<>>,
     efficiency_opportunities |-> <<>>]

\* A variant of _generate_ai_insights that hands a malformed response to
\* the parser instead of failing on it
_generate_ai_insights_unparsed(outcome) ==
    IF outcome \in {"answered", "malformed"}
    THEN [raw_insights |-> outcome, structured |-> [executive_summary |-> outcome]]
    ELSE AiFallback

\* _generate_ai_insights: the parsed answer of the model service
\* (_parse_ai_insights), or the fallback of the except branch
_generate_ai_insights(outcome) ==
    IF outcome = "answered"
    THEN [raw_insights |-> outcome, structured |-> [executive_summary |-> outcome]]
    ELSE AiFallback

\* rec['source'] = module.get('provider', 'unknown') for every rec of a
\* module sealed with scan_complete true: the dicts of the report itself
\* are written to
TagSource(module) ==
    IF SealedTrue(module)
    THEN LET Tag(rec) == Put(rec, "source", Get(module, "provider", "unknown"))
         IN  Put(module, "recommendations",
                 MapSeq(Tag, Get(module, "recommendations", <<>>)))
    ELSE module

TaggedRecs(module) ==
    IF SealedTrue(module) THEN Get(TagSource(module), "recommendations", <<>>) ELSE <<>>

\* A variant of priority_order that ranks the priorities by their names
priority_order_by_name(p) ==
    CASE p = "high" -> 1 [] p = "low" -> 2 [] p = "medium" -> 3 [] OTHER -> 0

\* priority_order.get(p, 0)
priority_order(p) ==
    CASE p = "high" -> 3 [] p = "medium" -> 2 [] p = "low" -> 1 [] OTHER -> 0

PriorityRank(x) == priority_order(Get(x, "priority", "low"))
Savings(x) == Get(x, "estimated_time_savings_hours_per_week", 0)

\* all_recs.sort(key=lambda x: (rank, savings), reverse=True): the key
\* tuples compare lexicographically and the sort is stable, which is what a
\* stable sort on the savings followed by a stable sort on the rank gives
SortByRankThenSavings(all_recs) == SortDesc(PriorityRank, SortDesc(Savings, all_recs))

\* _create_prioritized_recommendations: the returned list
_create_prioritized_recommendations(sr) ==
    SortByRankThenSavings(TaggedRecs(sr[ModuleKeys[1]]) \o TaggedRecs(sr[ModuleKeys[2]])
                          \o TaggedRecs(sr[ModuleKeys[3]]))

\* A variant of TotalTimeSavings that adds up the first three items only
TotalTimeSavingsTop(recommendations) ==
    LET S(r) == Savings(r) IN SumSeq(MapSeq(S, Take(recommendations, 3)))

\* sum(r.get('estimated_time_savings_hours_per_week', 0) for r in recommendations)
TotalTimeSavings(recommendations) ==
    LET S(r) == Savings(r) IN SumSeq(MapSeq(S, recommendations))

-----------------------------------------------------------------------------
(* run_full_analysis as a state machine.  req.outcome records, for each    *)
(* source, why it did or did not deliver a report ("not_requested",        *)
(* "refused": authentication failed or the Documents folder is missing,    *)
(* "scanned"); the code does not read it.                                  *)

Noted(r, source, what) == [r EXCEPT !.outcome = Put(@, source, what)]

\* The call: the three scan_* flags are the arguments
RunFullAnalysis ==
    /\ pc = "idle"
    /\ \E g \in BOOLEAN, l \in BOOLEAN, d \in BOOLEAN :
          req' = [scan_gmail |-> g, scan_local_files |-> l, scan_drive |-> d,
                  outcome |-> <<>>]
    /\ scan_results' = ScanResults0
    /\ pc' = "email"
    /\ UNCHANGED <<fsVars, drVars, emVars, anVars, dqVars, tkVars>>

\* 1. if scan_gmail: is false
EmailNotRequested ==
    /\ pc = "email" /\ ~req.scan_gmail
    /\ req' = Noted(req, "email", "not_requested")
    /\ pc' = "filesystem"
    /\ UNCHANGED <<scan_results, fsVars, drVars, emVars, anVars, dqVars, tkVars>>

\* 1. authenticate_gmail() returns None
EmailAuthRefused ==
    /\ pc = "email" /\ req.scan_gmail
    /\ req' = Noted(req, "email", "refused")
    /\ pc' = "filesystem"
    /\ UNCHANGED <<scan_results, fsVars, drVars, emVars, anVars, dqVars, tkVars>>

\* 1. authenticate_gmail() succeeds: EmailScanner(gmail_auth).scan_gmail()
EmailScanned ==
    /\ pc = "email" /\ req.scan_gmail
    /\ \E mb \in Mailboxes :
          /\ em' = [mailbox |-> mb, results |-> scan_gmail(mb)]
          /\ scan_results' = StoreReport(scan_results, "email_analysis", "email",
                                         scan_gmail(mb))
    /\ em_pc' = "sealed"
    /\ req' = Noted(req, "email", "scanned")
    /\ pc' = "filesystem"
    /\ UNCHANGED <<fsVars, drVars, anVars, dqVars, tkVars>>

\* 2. if scan_local_files: is false
FilesNotRequested ==
    /\ pc = "filesystem" /\ ~req.scan_local_files
    /\ req' = Noted(req, "filesystem", "not_requested")
    /\ pc' = "drive"
    /\ UNCHANGED <<scan_results, fsVars, drVars, emVars, anVars, dqVars, tkVars>>

\* 2. docs_path.exists() is false
DocumentsMissing ==
    /\ pc = "filesystem" /\ req.scan_local_files
    /\ req' = Noted(req, "filesystem", "refused")
    /\ pc' = "drive"
    /\ UNCHANGED <<scan_results, fsVars, drVars, emVars, anVars, dqVars, tkVars>>

\* 2. FileAnalyzer(str(docs_path)).scan_filesystem()
FilesScanned ==
    /\ pc = "filesystem" /\ req.scan_local_files
    /\ \E folder \in DocumentsFolders :
          /\ fs' = scan_filesystem(folder)
          /\ scan_results' = StoreReport(scan_results, "filesystem_analysis",
                                         "filesystem", scan_filesystem(folder).results)
    /\ fs_pc' = "sealed"
    /\ req' = Noted(req, "filesystem", "scanned")
    /\ pc' = "drive"
    /\ UNCHANGED <<drVars, emVars, anVars, dqVars, tkVars>>

\* 3. if scan_drive: is false
DriveNotRequested ==
    /\ pc = "drive" /\ ~req.scan_drive
    /\ req' = Noted(req, "google_drive", "not_requested")
    /\ pc' = "consolidate"
    /\ UNCHANGED <<scan_results, fsVars, drVars, emVars, anVars, dqVars, tkVars>>

\* 3. authenticate_gmail() returns None
DriveAuthRefused ==
    /\ pc = "drive" /\ req.scan_drive
    /\ req' = Noted(req, "google_drive", "refused")
    /\ pc' = "consolidate"
    /\ UNCHANGED <<scan_results, fsVars, drVars, emVars, anVars, dqVars, tkVars>>

\* 3. CloudScanner(drive_auth).scan_google_drive()
DriveScanned ==
    /\ pc = "drive" /\ req.scan_drive
    /\ \E account \in DriveAccounts :
          /\ dr' = scan_google_drive(account)
          /\ scan_results' = StoreReport(scan_results, "cloud_analysis",
                                         "google_drive", scan_google_drive(account).results)
    /\ dr_pc' = "sealed"
    /\ req' = Noted(req, "google_drive", "scanned")
    /\ pc' = "consolidate"
    /\ UNCHANGED <<fsVars, emVars, anVars, dqVars, tkVars>>

\* 4. consolidated = self._consolidate_findings(); total_findings is the
\* length of consolidated.get('issues', []), a key that is never set
Consolidate ==
    /\ pc = "consolidate"
    /\ scan_results' =
          LET consolidated == _consolidate_findings(scan_results) IN
          [scan_results EXCEPT
              !.consolidated_findings = consolidated,
              !.scan_summary.total_findings = Len(Get(consolidated, "issues", <<>>))]
    /\ pc' = "insights"
    /\ UNCHANGED <<req, fsVars, drVars, emVars, anVars, dqVars, tkVars>>

\* 5. ai_insights = self._generate_ai_insights()
GenerateInsights ==
    /\ pc = "insights"
    /\ \E outcome \in AiOutcomes :
          /\ scan_results' = [scan_results EXCEPT
                                 !.ai_insights = _generate_ai_insights(outcome)]
          /\ req' = Noted(req, "ai", outcome)
    /\ pc' = "recommend"
    /\ UNCHANGED <<fsVars, drVars, emVars, anVars, dqVars, tkVars>>

\* 6. recommendations = self._create_prioritized_recommendations() and the
\* two totals; the recommendations of the reports now carry 'source'
Prioritize ==
    /\ pc = "recommend"
    /\ scan_results' =
          LET recommendations == _create_prioritized_recommendations(scan_results) IN
          [scan_results EXCEPT
              !.email_analysis = TagSource(@),
              !.filesystem_analysis = TagSource(@),
              !.cloud_analysis = TagSource(@),
              !.prioritized_recommendations = recommendations,
              !.scan_summary.total_recommendations = Len(recommendations),
              !.scan_summary.total_time_savings_estimate =
                  TotalTimeSavings(recommendations)]
    /\ pc' = "done"
    /\ UNCHANGED <<req, fsVars, drVars, emVars, anVars, dqVars, tkVars>>

\* SystemCoordinator(): scan_results = {}
Init ==
    /\ pc = "idle" /\ req = IdleReq /\ scan_results = IdleResults
    /\ fs_pc = "idle" /\ fs = IdleFs
    /\ dr_pc = "idle" /\ dr = IdleDr
    /\ em_pc = "idle" /\ em = IdleEm
    /\ an_pc = "idle" /\ an = IdleAn
    /\ dq_pc = "idle" /\ dq = IdleDq
    /\ tk_pc = "idle" /\ tk = IdleTk

Next ==
    \/ RunFullAnalysis
    \/ EmailNotRequested \/ EmailAuthRefused \/ EmailScanned
    \/ FilesNotRequested \/ DocumentsMissing \/ FilesScanned
    \/ DriveNotRequested \/ DriveAuthRefused \/ DriveScanned
    \/ Consolidate \/ GenerateInsights \/ Prioritize

Spec == Init /\ [][Next]_vars

-----------------------------------------------------------------------------
(* Claims about the coordinator *)

Done == pc = "done"

Sources == {"email", "filesystem", "google_drive"}

\* The key of scan_results that holds the report of a source, and the name
\* the report gives itself (the filesystem report has no 'provider')
KeyOf(source) ==
    CASE source = "email" -> "email_analysis"
      [] source = "filesystem" -> "filesystem_analysis"
      [] source = "google_drive" -> "cloud_analysis"
ProviderOf(source) ==
    CASE source = "email" -> "gmail"
      [] source = "filesystem" -> "unknown"
      [] source = "google_drive" -> "google_drive"

ReportOf(source) == scan_results[KeyOf(source)]

\* A requested source failed: authentication was refused (or the Documents
\* folder is missing), or its scan sealed with scan_complete false
SourceFailed(source) ==
    \/ req.outcome[source] = "refused"
    \/ req.outcome[source] = "scanned" /\ ~Get(ReportOf(source), "scan_complete", FALSE)

SourceSucceeded(source) ==
    req.outcome[source] = "scanned" /\ Get(ReportOf(source), "scan_complete", FALSE)

\* The only trace of a failure that the result can hold: the report of the
\* source is there and says scan_complete false
ListedAsFailed(source) ==
    /\ Truthy(ReportOf(source))
    /\ ~Get(ReportOf(source), "scan_complete", TRUE)

\* The Findings and Recommendations a sealed-true report holds
FindingsOf(source) ==
    IF SealedTrue(ReportOf(source))
    THEN Get(ReportOf(source), "organization_issues", <<>>) ELSE <<>>
RecsOf(source) ==
    IF SealedTrue(ReportOf(source))
    THEN Get(ReportOf(source), "recommendations", <<>>) ELSE <<>>

AllBuckets ==
    LET cf == scan_results.consolidated_findings
    IN  cf.critical_issues \o cf.high_priority_issues
        \o cf.medium_priority_issues \o cf.low_priority_issues

\* The consolidated form of the Finding f of a source
Consolidated(source, f) ==
    [module |-> ProviderOf(source), severity |-> f.severity,
     issue |-> f.issue, shown |-> f.shown]

Merged == scan_results.prioritized_recommendations

\* C1 as claimed: run_full_analysis returns a result; every source that
\* failed is listed in it as failed and contributes no Finding and no
\* Recommendation; every Finding and Recommendation of every successfully
\* sealed source is present; when every requested source failed, the
\* Recommendations are empty and some source is listed as failed.
C1_Original ==
    Done =>
        /\ \A s \in Sources :
              /\ SourceFailed(s) =>
                    /\ ListedAsFailed(s)
                    /\ \A i \in 1..Len(AllBuckets) :
                          AllBuckets[i].module # ProviderOf(s)
                    /\ \A i \in 1..Len(Merged) : Merged[i].source # ProviderOf(s)
              /\ SourceSucceeded(s) =>
                    /\ \A i \in 1..Len(FindingsOf(s)) :
                          Consolidated(s, FindingsOf(s)[i]) \in SeqToSet(AllBuckets)
                    /\ SeqToSet(RecsOf(s)) \subseteq SeqToSet(Merged)
        /\ ( /\ \E s \in Sources : SourceFailed(s)
             /\ \A s \in Sources : ~SourceSucceeded(s) )
           => /\ Merged = <<>>
              /\ \E s \in Sources : ListedAsFailed(s)

\* The rank the claims give a priority: high above medium above low
ClaimedRank(rec) ==
    CASE rec.priority = "high" -> 3 [] rec.priority = "medium" -> 2
      [] rec.priority = "low" -> 1

\* The Recommendations of the reports sealed true, in module order
Concatenated == RecsOf("email") \o RecsOf("filesystem") \o RecsOf("google_drive")

\* C2: the list returned by _create_prioritized_recommendations holds every
\* Recommendation of every sealed-true report as often as the reports hold
\* it and nothing else; every high item precedes every medium one, every
\* medium one every low one, and among items of equal priority the weekly
\* savings never increase.
C2_MergedAndSorted ==
    Done =>
        /\ Len(Merged) = Len(Concatenated)
        /\ \A x \in SeqToSet(Merged) \cup SeqToSet(Concatenated) :
              Count(Merged, x) = Count(Concatenated, x)
        /\ \A i \in 1..Len(Merged) : \A j \in 1..Len(Merged) :
              i < j =>
                 \/ ClaimedRank(Merged[i]) > ClaimedRank(Merged[j])
                 \/ /\ ClaimedRank(Merged[i]) = ClaimedRank(Merged[j])
                    /\ Merged[i].estimated_time_savings_hours_per_week
                         >= Merged[j].estimated_time_savings_hours_per_week

\* A merge of three sources that had to be reordered: all three priorities
\* occur, and two neighbours of one priority differ in their savings
C2_Witness ==
    /\ Done
    /\ \A s \in Sources : RecsOf(s) # <<>>
    /\ Merged # Concatenated
    /\ {Merged[i].priority : i \in 1..Len(Merged)} = {"high", "medium", "low"}
    /\ \E i \in 1..(Len(Merged) - 1) :
          /\ Merged[i].priority = Merged[i + 1].priority
          /\ Merged[i].estimated_time_savings_hours_per_week
               > Merged[i + 1].estimated_time_savings_hours_per_week

\* The savings of the items of a list, added up
RECURSIVE SavingsSum(_)
SavingsSum(recs) ==
    IF recs = <<>> THEN 0
    ELSE Head(recs).estimated_time_savings_hours_per_week + SavingsSum(Tail(recs))

\* C3: after run_full_analysis, total_time_savings_estimate is the sum of
\* the savings of every item of the merged list, and total_recommendations
\* is the length of that list.
C3_Totals ==
    Done =>
        /\ scan_results.scan_summary.total_time_savings_estimate = SavingsSum(Merged)
        /\ scan_results.scan_summary.total_recommendations = Len(Merged)

\* A result of more than three Recommendations whose items after the third
\* still save time
C3_Witness ==
    /\ Done
    /\ Len(Merged) > 3
    /\ SavingsSum(SubSeq(Merged, 4, Len(Merged))) > 0
    /\ scan_results.scan_summary.total_time_savings_estimate = SavingsSum(Merged)

Consolidation == pc \in {"insights", "recommend", "done"}

\* The bucket the claims name for a severity
ClaimedBucket(severity) ==
    CASE severity = "high" -> "high_priority_issues"
      [] severity = "medium" -> "medium_priority_issues"
      [] severity = "low" -> "low_priority_issues"

\* The number of Findings of sealed-true reports whose consolidated form is e
Reported(e) ==
    LET Hits(s) == Cardinality({i \in 1..Len(FindingsOf(s)) :
                                   Consolidated(s, FindingsOf(s)[i]) = e})
    IN  Hits("email") + Hits("filesystem") + Hits("google_drive")

\* C4: after _consolidate_findings, the buckets hold every Finding of every
\* sealed-true report as often as the reports hold it (no Finding is
\* dropped or merged with another) and nothing else; each Finding is in the
\* bucket of its own severity; nothing comes from a report that is absent or
\* sealed false.
C4_Buckets ==
    Consolidation =>
        LET cf == scan_results.consolidated_findings IN
        /\ Len(AllBuckets) =
              Len(FindingsOf("email")) + Len(FindingsOf("filesystem"))
              + Len(FindingsOf("google_drive"))
        /\ \A s \in Sources : \A i \in 1..Len(FindingsOf(s)) :
              LET e == Consolidated(s, FindingsOf(s)[i]) IN
              /\ Count(cf[ClaimedBucket(e.severity)], e) = Reported(e)
              /\ Count(AllBuckets, e) = Reported(e)
        /\ \A s \in Sources :
              ~SealedTrue(ReportOf(s)) =>
                 \A i \in 1..Len(AllBuckets) : AllBuckets[i].module # ProviderOf(s)

\* Two sealed-true reports with Findings of every severity between them,
\* both with a high Finding, next to a report sealed false
C4_Witness ==
    /\ Consolidation
    /\ \E s \in Sources : Truthy(ReportOf(s)) /\ ~SealedTrue(ReportOf(s))
    /\ LET cf == scan_results.consolidated_findings IN
       /\ {cf.high_priority_issues[i].module : i \in 1..Len(cf.high_priority_issues)}
            = {"unknown", "google_drive"}
       /\ cf.medium_priority_issues # <<>>
       /\ cf.low_priority_issues # <<>>

-----------------------------------------------------------------------------
(* Further claims about the filesystem scan *)

\* C11 as claimed: whatever entry cannot be read, while it is walked or when
\* the duplicate groups are sized after the walk, the scan of a listable
\* directory seals with scan_complete true, no unreadable entry is listed in
\* a DuplicateGroup, and every other entry that was iterated is recorded.
C11_Original ==
    (FsSealed /\ fs.reachable) =>
        /\ Get(fs.results, "scan_complete", FALSE)
        /\ \A i \in 1..Len(fs.disk) :
              fs.disk[i].file.fault # "none" =>
                 \A g \in 1..Len(FsGroups) :
                    fs.disk[i].path \notin SeqToSet(FsGroups[g].paths)
        /\ Len(fs.results.file_paths) = Len(FsScanned)

\* C12 as claimed, for the filesystem scanner: when nothing fails while the
\* groups are sized, scan_filesystem(max_files=M) seals with scan_complete
\* true and a total_files of at most M.
C12_Original ==
    (FsSealed /\ fs.gone = {}) =>
        /\ Get(fs.results, "scan_complete", FALSE)
        /\ fs.results.total_files <= fs.max_files

\* A list of Recommendations in which every high item precedes every medium
\* one, every medium one every low one, and equal priorities are in
\* non-increasing order of savings
RankedList(recs) ==
    \A i \in 1..Len(recs) : \A j \in 1..Len(recs) :
        i < j =>
           \/ ClaimedRank(recs[i]) > ClaimedRank(recs[j])
           \/ /\ ClaimedRank(recs[i]) = ClaimedRank(recs[j])
              /\ recs[i].estimated_time_savings_hours_per_week
                   >= recs[j].estimated_time_savings_hours_per_week

\* C13 as claimed, for the filesystem report: the Recommendations of a
\* completed scan are sorted by priority descending (high, medium, low) and,
\* among equal priorities, by savings descending.
C13_Original == FsComplete => RankedList(fs.results.recommendations)

\* C14 as claimed, for the filesystem report: no Recommendation of a
\* completed scan estimates less than 0.5 hours per week (5 tenths).
C14_Original ==
    FsComplete =>
        \A i \in 1..Len(fs.results.recommendations) :
            fs.results.recommendations[i].estimated_time_savings_hours_per_week >= 5

-----------------------------------------------------------------------------
(* src/analyzer.py: PracticeAnalyzer._calculate_time_savings.  Hours are   *)
(* kept in thousandths here (waste factors in hundredths times             *)
(* optimization factors in tenths), so that weekly * waste * optimization  *)
(* is an integer; percentages are whole numbers.                           *)

MaxPercentage == 100
LowScoreBelow == 40
MidScoreBelow == 70
SavingsFloor == 500
HighSavings == 2000
HardBelow == 30
MediumBelow == 50

\* time_allocations, in dict order
time_allocations ==
    << [category |-> "intake", weekly |-> 8],
       [category |-> "documents", weekly |-> 12],
       [category |-> "case_management", weekly |-> 6],
       [category |-> "billing", weekly |-> 4],
       [category |-> "admin", weekly |-> 10] >>

Categories == {time_allocations[i].category : i \in 1..Len(time_allocations)}

\* A variant of waste_factor whose band limits belong to the lower band
waste_factor_upto(percentage) ==
    IF percentage <= LowScoreBelow THEN 70
    ELSE IF percentage <= MidScoreBelow THEN 40
    ELSE 15

\* waste_factor of the if/elif/else chain, in hundredths
waste_factor(percentage) ==
    IF percentage < LowScoreBelow THEN 70
    ELSE IF percentage < MidScoreBelow THEN 40
    ELSE 15

\* optimization_factor of the same chain, in tenths
optimization_factor(percentage) ==
    IF percentage < LowScoreBelow THEN 6
    ELSE IF percentage < MidScoreBelow THEN 5
    ELSE 4

\* potential_savings = (weekly * waste_factor) * optimization_factor
potential_savings(weekly, percentage) ==
    (weekly * waste_factor(percentage)) * optimization_factor(percentage)

\* One pass of "for category, data in time_allocations.items()": the
\* TimeSavingRecommendation appended, if any.  area holds the category key.
TimeSaving(data, score_results) ==
    LET percentage == Get(score_results.category_percentages, data.category, 0)
        savings    == potential_savings(data.weekly, percentage)
    IN  When(savings > SavingsFloor,
             [ area |-> data.category,
               current_time_weekly |-> data.weekly * 1000,
               optimized_time_weekly |-> data.weekly * 1000 - savings,
               time_savings |-> savings,
               implementation_time |->
                   IF percentage < HardBelow THEN "Hard"
                   ELSE IF percentage < MediumBelow THEN "Medium" ELSE "Easy",
               priority |-> IF savings > HighSavings THEN "High" ELSE "Medium" ])

RECURSIVE TimeSavings(_, _)
TimeSavings(k, score_results) ==
    IF k = 0 THEN <<>>
    ELSE TimeSavings(k - 1, score_results) \o TimeSaving(time_allocations[k], score_results)

TimeSavingsKey(x) == x.time_savings

\* _calculate_time_savings
_calculate_time_savings(score_results) ==
    SortDesc(TimeSavingsKey, TimeSavings(Len(time_allocations), score_results))

\* The category_percentages the model questionnaire yields: one category at
\* any percentage or left out, the others at one of two anchor values
AnchorPercentages == {LowScoreBelow - 1, MidScoreBelow}
ScoreResults ==
    LET Bases == [Categories -> AnchorPercentages] IN
    { [category_percentages |-> [base EXCEPT ![c] = p]] :
         base \in Bases, c \in Categories, p \in 0..MaxPercentage }
    \cup { [category_percentages |-> [x \in Categories \ {c} |-> base[x]]] :
              base \in Bases, c \in Categories }

AnInit ==
    /\ an_pc = "start"
    /\ an \in {[score_results |-> sr, time_savings |-> <<>>] : sr \in ScoreResults}

\* time_savings = self._calculate_time_savings(responses, score_results)
CalculateTimeSavings ==
    /\ an_pc = "start"
    /\ an' = [an EXCEPT !.time_savings = _calculate_time_savings(an.score_results)]
    /\ an_pc' = "done"

\* The slice sizes of _generate_recommendations: [:3], [:3], [:2]
QuickWinsShown == 3
ShortTermShown == 3
LongTermShown == 2

\* sum(r.time_savings for r in recs)
RECURSIVE SumTimeSavings(_)
SumTimeSavings(recs) ==
    IF recs = <<>> THEN 0 ELSE Head(recs).time_savings + SumTimeSavings(Tail(recs))

\* A variant of _generate_recommendations whose total adds up the three
\* slices it returns
_generate_recommendations_shown(time_savings) ==
    LET Easy(r)   == r.implementation_time = "Easy"
        Medium(r) == r.implementation_time = "Medium"
        Hard(r)   == r.implementation_time = "Hard"
        quick_wins == Take(FilterSeq(Easy, time_savings), QuickWinsShown)
        short_term == Take(FilterSeq(Medium, time_savings), ShortTermShown)
        long_term  == Take(FilterSeq(Hard, time_savings), LongTermShown)
    IN  [ quick_wins |-> quick_wins, short_term |-> short_term,
          long_term |-> long_term,
          total_weekly_savings |-> SumTimeSavings(quick_wins \o short_term \o long_term) ]

\* _generate_recommendations
_generate_recommendations(time_savings) ==
    LET Easy(r)   == r.implementation_time = "Easy"
        Medium(r) == r.implementation_time = "Medium"
        Hard(r)   == r.implementation_time = "Hard"
    IN  IF time_savings = <<>>
        THEN [ quick_wins |-> <<>>, short_term |-> <<>>, long_term |-> <<>>,
               total_weekly_savings |-> 0 ]
        ELSE [ quick_wins |-> Take(FilterSeq(Easy, time_savings), QuickWinsShown),
               short_term |-> Take(FilterSeq(Medium, time_savings), ShortTermShown),
               long_term |-> Take(FilterSeq(Hard, time_savings), LongTermShown),
               total_weekly_savings |-> SumTimeSavings(time_savings) ]

\* recommendations = self._generate_recommendations(responses, time_savings)
GenerateRecommendations ==
    /\ an_pc = "done"
    /\ an' = Put(an, "recommendations", _generate_recommendations(an.time_savings))
    /\ an_pc' = "recommended"

InitAnalyzer ==
    /\ AnInit
    /\ fs_pc = "idle" /\ fs = IdleFs
    /\ dr_pc = "idle" /\ dr = IdleDr
    /\ em_pc = "idle" /\ em = IdleEm
    /\ pc = "idle" /\ req = IdleReq /\ scan_results = IdleResults
    /\ dq_pc = "idle" /\ dq = IdleDq
    /\ tk_pc = "idle" /\ tk = IdleTk

NextAnalyzer ==
    \/ CalculateTimeSavings /\ UNCHANGED <<fsVars, drVars, emVars, coVars, dqVars, tkVars>>
    \/ GenerateRecommendations /\ UNCHANGED <<fsVars, drVars, emVars, coVars, dqVars, tkVars>>

SpecAnalyzer == InitAnalyzer /\ [][NextAnalyzer]_vars

\* The band table of the claims: (waste, optimization) in hundredths and tenths
ClaimedSavings(weekly, p) ==
    weekly * (IF p < 40 THEN 70 * 6 ELSE IF p < 70 THEN 40 * 5 ELSE 15 * 4)

AnDone == an_pc = "done"

\* C15: for every category with a baseline allocation and every percentage
\* 0..100, the savings that _calculate_time_savings computes are baseline x
\* waste x optimization with (0.7, 0.6) below 40, (0.4, 0.5) from 40 to below
\* 70 and (0.15, 0.4) from 70 on: every item returned carries that value for
\* its category, and a category whose value exceeds half an hour has its item.
C15_TimeSavings ==
    AnDone =>
        /\ \A i \in 1..Len(an.time_savings) :
              \E k \in 1..Len(time_allocations) :
                 LET data == time_allocations[k]
                     p == Get(an.score_results.category_percentages, data.category, 0)
                 IN  /\ an.time_savings[i].area = data.category
                     /\ an.time_savings[i].time_savings = ClaimedSavings(data.weekly, p)
        /\ \A k \in 1..Len(time_allocations) :
              LET data == time_allocations[k]
                  p == Get(an.score_results.category_percentages, data.category, 0)
              IN  ClaimedSavings(data.weekly, p) > 500 =>
                     \E i \in 1..Len(an.time_savings) :
                        an.time_savings[i].area = data.category

\* A run in which one category sits exactly on the limit 40 and another
\* exactly on 70, both with an item
C15_Witness ==
    /\ AnDone
    /\ \E c \in Categories, d \in Categories :
          /\ c \in DOMAIN an.score_results.category_percentages
          /\ d \in DOMAIN an.score_results.category_percentages
          /\ an.score_results.category_percentages[c] = 40
          /\ an.score_results.category_percentages[d] = 70
          /\ \E i \in 1..Len(an.time_savings) : an.time_savings[i].area = c
          /\ \E i \in 1..Len(an.time_savings) : an.time_savings[i].area = d

-----------------------------------------------------------------------------
(* The categorizers called on their own: _categorize_file(filepath) and    *)
(* _categorize_drive_file(file_info) on one descriptor each                *)

\* The most keywords one model name holds
MaxKeywords == 2

\* The keywords the rules look for in the lower-cased path or name
Keywords ==
    {"contract", "agreement", "pleading", "motion", "discovery", "letter",
     "billing", "invoice"}

KeywordSets == {k \in SUBSET Keywords : Cardinality(k) <= MaxKeywords}

\* filepath.suffix of the model files, and str.lower() on them
Suffixes ==
    {".pdf", ".PDF", ".docx", ".rtf", ".jpg", ".xlsx", ".csv", ".pptx", ".zip",
     ".exe", ".py", ".txt", ".Txt", ""}
Lower(s) == CASE s = ".PDF" -> ".pdf" [] s = ".Txt" -> ".txt" [] OTHER -> s

\* file_info.get('mimeType', '') of the model items
MimeTypes ==
    GoogleAppsMimes \cup ImageMimes
    \cup {"application/pdf", "application/msword", "application/vnd.ms-excel",
          "application/vnd.ms-powerpoint", "application/zip", "text/plain", ""}

CategorizeInit ==
    \/ /\ fs_pc = "categorize"
       /\ fs \in {[suffix |-> x, kws |-> k] : x \in Suffixes, k \in KeywordSets}
       /\ dr_pc = "idle" /\ dr = IdleDr
    \/ /\ dr_pc = "categorize"
       /\ dr \in {[mimeType |-> m, kws |-> k] : m \in MimeTypes, k \in KeywordSets}
       /\ fs_pc = "idle" /\ fs = IdleFs

\* category = self._categorize_file(filepath)
CategorizeFile ==
    /\ fs_pc = "categorize"
    /\ fs' = Put(fs, "category", _categorize_file(Lower(fs.suffix), fs.kws))
    /\ fs_pc' = "categorized"

\* category = self._categorize_drive_file(file_info)
CategorizeDriveFile ==
    /\ dr_pc = "categorize"
    /\ dr' = Put(dr, "category", _categorize_drive_file(dr.mimeType, dr.kws))
    /\ dr_pc' = "categorized"

InitCategorize ==
    /\ CategorizeInit
    /\ em_pc = "idle" /\ em = IdleEm
    /\ pc = "idle" /\ req = IdleReq /\ scan_results = IdleResults
    /\ an_pc = "idle" /\ an = IdleAn
    /\ dq_pc = "idle" /\ dq = IdleDq
    /\ tk_pc = "idle" /\ tk = IdleTk

NextCategorize ==
    \/ CategorizeFile /\ UNCHANGED <<drVars, emVars, coVars, anVars, dqVars, tkVars>>
    \/ CategorizeDriveFile /\ UNCHANGED <<fsVars, emVars, coVars, anVars, dqVars, tkVars>>

SpecCategorize == InitCategorize /\ [][NextCategorize]_vars

\* The labels each categorizer can return
FileVocabulary ==
    {"legal_contracts", "legal_pleadings", "legal_discovery", "legal_correspondence",
     "documents", "images", "billing", "spreadsheets", "presentations",
     "archives", "executables", "code", "other"}
DriveVocabulary ==
    {"google_docs", "google_sheets", "google_slides", "google_forms", "google_files",
     "legal_contracts", "legal_pleadings", "legal_discovery", "documents",
     "billing", "spreadsheets", "presentations", "images", "archives", "other"}

\* C16: each categorizer returns one label of its vocabulary for every
\* descriptor; among the document types the keyword rules come before the
\* generic rule and in their listed order (contract or agreement gives
\* legal_contracts, also next to motion; no keyword gives documents); a type
\* that no rule names gives other.
C16_Categorizers ==
    /\ fs_pc = "categorized" =>
          /\ fs.category \in FileVocabulary
          /\ fs.suffix \in {".pdf", ".PDF", ".docx", ".rtf"} =>
                /\ ("contract" \in fs.kws \/ "agreement" \in fs.kws)
                      => fs.category = "legal_contracts"
                /\ (fs.kws \cap {"contract", "agreement"} = {}
                    /\ fs.kws \cap {"pleading", "motion"} # {})
                      => fs.category = "legal_pleadings"
                /\ fs.kws \cap {"contract", "agreement", "pleading", "motion",
                               "discovery", "letter"} = {}
                      => fs.category = "documents"
          /\ fs.suffix \in {".txt", ".Txt", ""} => fs.category = "other"
    /\ dr_pc = "categorized" =>
          /\ dr.category \in DriveVocabulary
          /\ dr.mimeType = "application/pdf" =>
                /\ ("contract" \in dr.kws \/ "agreement" \in dr.kws)
                      => dr.category = "legal_contracts"
                /\ dr.kws \cap {"contract", "agreement", "pleading", "motion",
                               "discovery"} = {}
                      => dr.category = "documents"
          /\ dr.mimeType \in {"text/plain", ""} => dr.category = "other"

\* An upper-case PDF whose path holds both 'contract' and 'motion', labelled
\* legal_contracts
C16_Witness ==
    /\ fs_pc = "categorized"
    /\ fs.suffix = ".PDF" /\ fs.kws = {"contract", "motion"}
    /\ fs.category = "legal_contracts"

-----------------------------------------------------------------------------
(* _analyze_depth called on its own on a directory structure               *)

\* Keys of dir_structure as the parts of the relative path: 'root' for the
\* scan root, then directories down to one with DeepFolderDepth separators
DirPool ==
    { <<"root">>, <<"a">>, <<"c">>, <<"a", "b">>, <<"a", "b", "c">>,
      <<"a", "b", "c", "d", "e", "f", "g">> }

\* len(files) of a directory of the structure: a few, or a crowd
DirSizes == {1, CrowdedFiles + 1}

DirStructures == UNION {[ds -> DirSizes] : ds \in SUBSET DirPool}

DepthInit ==
    /\ fs_pc = "depth"
    /\ fs \in {[dir_structure |-> ds] : ds \in DirStructures}

\* results['depth_analysis'] = self._analyze_depth(dir_structure)
AnalyzeDepth ==
    /\ fs_pc = "depth"
    /\ fs' = Put(fs, "depth_analysis", _analyze_depth(fs.dir_structure))
    /\ fs_pc' = "depth_done"

InitDepth ==
    /\ DepthInit
    /\ dr_pc = "idle" /\ dr = IdleDr
    /\ em_pc = "idle" /\ em = IdleEm
    /\ pc = "idle" /\ req = IdleReq /\ scan_results = IdleResults
    /\ an_pc = "idle" /\ an = IdleAn
    /\ dq_pc = "idle" /\ dq = IdleDq
    /\ tk_pc = "idle" /\ tk = IdleTk

NextDepth == AnalyzeDepth /\ UNCHANGED <<drVars, emVars, coVars, anVars, dqVars, tkVars>>

SpecDepth == InitDepth /\ [][NextDepth]_vars

\* C17: for an empty structure max_depth and avg_depth are 0; for every
\* structure the counts of depth_distribution add up to the number of
\* directories of the structure, and max_depth is the largest depth whose
\* count is not zero.
C17_DepthHistogram ==
    fs_pc = "depth_done" =>
        LET da   == fs.depth_analysis
            dist == da.depth_distribution
            used == {x \in DOMAIN dist : dist[x] > 0}
        IN  /\ SumFn(dist, DOMAIN dist) = Cardinality(DOMAIN fs.dir_structure)
            /\ DOMAIN fs.dir_structure = {} =>
                  /\ da.max_depth = 0
                  /\ da.avg_depth.num = 0 /\ da.avg_depth.den # 0
            /\ used # {} =>
                  /\ da.max_depth \in used
                  /\ \A x \in used : x <= da.max_depth
            /\ da.avg_depth.den # 0

\* A structure of several directories, some of them at the same depth and one
\* of them crowded, has been analysed
C17_Witness ==
    /\ fs_pc = "depth_done"
    /\ {<<"a">>, <<"c">>, <<"a", "b", "c">>} \subseteq DOMAIN fs.dir_structure
    /\ fs.dir_structure[<<"a">>] > CrowdedFiles
    /\ fs.depth_analysis.max_depth >= 2
    /\ fs.depth_analysis.depth_distribution[0] >= 2

\* The empty structure has been analysed
C17_WitnessEmpty ==
    /\ fs_pc = "depth_done"
    /\ DOMAIN fs.dir_structure = {}

-----------------------------------------------------------------------------
(* The depth of a directory in the filesystem report                       *)

\* C18 as stated: the depth _analyze_depth gives to a directory is the depth
\* the directory table records for it (0 for the scan root, 1 for a
\* first-level subdirectory, one more per level), so that the histogram
\* counts, for every depth, the analysed directories the table holds at
\* that depth, and max_depth is the largest of them.
C18_Original ==
    FsComplete =>
        LET table    == fs.results.directories
            analysed == DOMAIN fs.dir_structure
            da       == fs.results.depth_analysis
        IN  /\ analysed \subseteq DOMAIN table
            /\ \A d \in analysed :
                  /\ Get(da.depth_distribution, table[d].depth, 0)
                        = Cardinality({e \in analysed : table[e].depth = table[d].depth})
                  /\ table[d].depth <= da.max_depth

-----------------------------------------------------------------------------
(* The reports after the merge                                             *)

\* The report of a source as its scanner sealed it
SealedReport(source) ==
    CASE source = "email" -> em.results
      [] source = "filesystem" -> fs.results
      [] source = "google_drive" -> dr.results

\* C19 as stated: after _create_prioritized_recommendations (and so at the
\* end of run_full_analysis) the Recommendations list of every scanned
\* source's report, and every Recommendation in it, is as it was when the
\* report was sealed.
C19_Original ==
    Done =>
        \A source \in Sources :
            req.outcome[source] = "scanned" =>
                Get(ReportOf(source), "recommendations", <<>>)
                    = Get(SealedReport(source), "recommendations", <<>>)

-----------------------------------------------------------------------------
(* The source named on consolidated Findings and merged Recommendations    *)

\* The name the coordinator writes when a report does not say where it
\* comes from: module.get('provider', 'unknown')
NoSource == "unknown"

\* The identifiers the items of a source carry after the merge
Identifiers(source) ==
    {RecsOf(source)[i].source : i \in 1..Len(RecsOf(source))}
    \cup (IF FindingsOf(source) # <<>>
          THEN {Get(ReportOf(source), "provider", NoSource)} ELSE {})

\* C20 as stated: every consolidated Finding and every merged Recommendation
\* carries the identifier of the source whose report produced it (so none
\* carries the name that stands for no known source), and the items of two
\* different sources never carry the same identifier.
C20_Original ==
    Done =>
        /\ \A i \in 1..Len(AllBuckets) : AllBuckets[i].module # NoSource
        /\ \A i \in 1..Len(Merged) : Merged[i].source # NoSource
        /\ \A s, t \in Sources :
              s # t => Identifiers(s) \cap Identifiers(t) = {}

-----------------------------------------------------------------------------
(* The root-level Finding of the filesystem scan                           *)

\* The files of the scan root that the scan processed and recorded
RootProcessed ==
    Cardinality({i \in 1..Len(fs.results.file_paths) :
                    fs.results.file_paths[i].dir = <<"root">>})

RootFinding ==
    \E i \in 1..Len(fs.results.organization_issues) :
        fs.results.organization_issues[i].issue = "too_many_root_files"

\* C21 as stated: a complete filesystem report holds the Finding
\* too_many_root_files exactly when more than 50 files of the scan root
\* were processed; excluded and unprocessed files do not count.
C21_Original ==
    FsComplete => (RootFinding <=> RootProcessed > RootFilesLimit)

-----------------------------------------------------------------------------
(* A failure of the text generation                                        *)

\* scan_results as the three scans left it: the reports as sealed, nothing
\* of what steps 4 to 6 add
AsScanned ==
    LET report(source) == IF Get(req.outcome, source, "") = "scanned"
                          THEN SealedReport(source) ELSE None
    IN  [ScanResults0 EXCEPT !.email_analysis = report("email"),
                             !.filesystem_analysis = report("filesystem"),
                             !.cloud_analysis = report("google_drive")]

GenerationFailed ==
    Get(Get(req, "outcome", <<>>), "ai", "answered") # "answered"

\* C22: when the text generation fails (no client, the request raises, a
\* malformed response) the run goes on to its end, ai_insights is the one
\* fixed fallback value, and the consolidated Findings, the ranked
\* Recommendations and the total time savings are those that the sealed
\* reports alone determine, as in a run whose generation succeeded.
C22_GenerationNotFatal ==
    /\ GenerationFailed =>
          /\ pc \in {"recommend", "done"}
          /\ scan_results.ai_insights =
                [error |-> "AI analysis failed", summary |-> "unable",
                 key_patterns |-> <<>>, unusual_workflows |-> <<>>,
                 efficiency_opportunities |-> <<>>]
    /\ Done =>
          /\ scan_results.consolidated_findings = _consolidate_findings(AsScanned)
          /\ Merged = _create_prioritized_recommendations(AsScanned)
          /\ scan_results.scan_summary.total_time_savings_estimate
                = SavingsSum(Merged)
          /\ ~GenerationFailed => "error" \notin DOMAIN scan_results.ai_insights

\* A run ended after a malformed response, with Findings consolidated and
\* Recommendations ranked
C22_Witness ==
    /\ Done
    /\ req.outcome["ai"] = "malformed"
    /\ Len(AllBuckets) > 0
    /\ Len(Merged) > 1

-----------------------------------------------------------------------------
(* DiagnosticQuestionnaire (diagnostic_questions.py)                       *)

\* The most entries one model response map holds
MaxResponses == 3

\* self.categories.keys()
CategoryKeys ==
    <<"intake", "documents", "case_management", "billing", "admin", "pain_points">>

\* The letters of the four options of every question; the id of an option
\* is the id of its question followed by its letter
OptionLetters == <<"a", "b", "c", "d">>

\* The three ways the values of the options a, b, c, d of a question run
ValuesMixed == <<1, 2, 4, 3>>
ValuesDown == <<4, 3, 2, 1>>
ValuesUp == <<1, 2, 3, 4>>

Question(id, category, values) == [id |-> id, category |-> category, values |-> values]

\* _load_questions: the list of the questions, with id, category and the
\* values of the options
_load_questions ==
    << Question("intake_1", "intake", ValuesMixed),
       Question("intake_2", "intake", ValuesMixed),
       Question("intake_3", "intake", ValuesMixed),
       Question("intake_4", "intake", ValuesDown),
       Question("docs_1", "documents", ValuesMixed),
       Question("docs_2", "documents", ValuesMixed),
       Question("docs_3", "documents", ValuesMixed),
       Question("docs_4", "documents", ValuesMixed),
       Question("case_1", "case_management", ValuesMixed),
       Question("case_2", "case_management", ValuesMixed),
       Question("case_3", "case_management", ValuesMixed),
       Question("case_4", "case_management", ValuesMixed),
       Question("billing_1", "billing", ValuesMixed),
       Question("billing_2", "billing", ValuesDown),
       Question("billing_3", "billing", ValuesMixed),
       Question("admin_1", "admin", ValuesDown),
       Question("admin_2", "admin", ValuesMixed),
       Question("admin_3", "admin", ValuesDown),
       Question("pain_1", "pain_points", ValuesUp),
       Question("pain_2", "pain_points", ValuesDown),
       Question("pain_3", "pain_points", ValuesUp),
       Question("pain_4", "pain_points", ValuesUp) >>

\* A variant of get_questions_by_category that stops at the first match, as
\* get_question_by_id does
get_first_question_of_category(questions, category) ==
    LET hits == {i \in 1..Len(questions) : questions[i].category = category}
    IN  IF hits = {} THEN <<>>
        ELSE <<questions[CHOOSE i \in hits : \A j \in hits : i <= j]>>

\* get_questions_by_category: [q for q in self.questions if q.category == category]
RECURSIVE get_questions_by_category(_, _)
get_questions_by_category(questions, category) ==
    IF questions = <<>> THEN <<>>
    ELSE (IF Head(questions).category = category THEN <<Head(questions)>> ELSE <<>>)
         \o get_questions_by_category(Tail(questions), category)

\* get_question_by_id: the first question with the id, or ValueError
get_question_by_id(questions, question_id) ==
    LET hits == {i \in 1..Len(questions) : questions[i].id = question_id}
    IN  IF hits = {} THEN [raised |-> "ValueError"]
        ELSE questions[CHOOSE i \in hits : \A j \in hits : i <= j]

\* An option id as the question it names and its letter;
\* next(opt for opt in question.options if opt.id == option_id) finds it
\* among the options of the question, or raises StopIteration
LetterIndex(letter) ==
    CHOOSE i \in 1..Len(OptionLetters) : OptionLetters[i] = letter
OptionFound(question, option_id) ==
    /\ option_id.q = question.id
    /\ \E i \in 1..Len(OptionLetters) : OptionLetters[i] = option_id.letter
OptionValue(question, option_id) == question.values[LetterIndex(option_id.letter)]

\* The entries of responses that reach the four '+=' lines
ValidResponse(questions, responses, question_id) ==
    LET question == get_question_by_id(questions, question_id)
    IN  /\ "raised" \notin DOMAIN question
        /\ OptionFound(question, responses[question_id])

\* A variant of calculate_score that gives an entry with an option of
\* another question the value of the option with the same letter
calculate_score_by_letter(questions, responses) ==
    LET named   == {k \in DOMAIN responses :
                       /\ "raised" \notin DOMAIN get_question_by_id(questions, k)
                       /\ \E i \in 1..Len(OptionLetters) :
                             OptionLetters[i] = responses[k].letter}
        value   == [k \in named |->
                       OptionValue(get_question_by_id(questions, k), responses[k])]
        cat(k)  == get_question_by_id(questions, k).category
        cats    == SeqToSet(CategoryKeys)
        scores  == [c \in cats |-> SumFn(value, {k \in named : cat(k) = c})]
        counts  == [c \in cats |-> Cardinality({k \in named : cat(k) = c})]
        total   == SumFn(value, named)
        maxp    == 4 * Cardinality({k \in named : ValidResponse(questions, responses, k)})
    IN  [ category_scores |-> scores,
          category_counts |-> counts,
          category_percentages |->
              [c \in cats |-> IF counts[c] > 0
                              THEN [num |-> scores[c] * 100, den |-> counts[c] * 4]
                              ELSE [num |-> 0, den |-> 1]],
          total_score |-> total,
          max_possible |-> maxp,
          overall_percentage |-> IF maxp > 0 THEN [num |-> total * 100, den |-> maxp]
                                 ELSE [num |-> 0, den |-> 1] ]

\* calculate_score; the percentages are held as fractions num/den
calculate_score(questions, responses) ==
    LET valid   == {k \in DOMAIN responses : ValidResponse(questions, responses, k)}
        value   == [k \in valid |->
                       OptionValue(get_question_by_id(questions, k), responses[k])]
        cat(k)  == get_question_by_id(questions, k).category
        cats    == SeqToSet(CategoryKeys)
        scores  == [c \in cats |-> SumFn(value, {k \in valid : cat(k) = c})]
        counts  == [c \in cats |-> Cardinality({k \in valid : cat(k) = c})]
        total   == SumFn(value, valid)
        maxp    == 4 * Cardinality(valid)
    IN  [ category_scores |-> scores,
          category_counts |-> counts,
          category_percentages |->
              [c \in cats |-> IF counts[c] > 0
                              THEN [num |-> scores[c] * 100, den |-> counts[c] * 4]
                              ELSE [num |-> 0, den |-> 1]],
          total_score |-> total,
          max_possible |-> maxp,
          overall_percentage |-> IF maxp > 0 THEN [num |-> total * 100, den |-> maxp]
                                 ELSE [num |-> 0, den |-> 1] ]

\* The question ids and option ids of the model response maps: questions of
\* four categories, an id of no question, an option of another question and
\* an option letter no question has
ResponseIds == {"intake_1", "intake_4", "billing_2", "pain_1", "intake_99"}
ResponseOptions ==
    {[q |-> k, letter |-> l] : k \in {"intake_1", "intake_4", "billing_2", "pain_1"},
                               l \in {"a", "c"}}
    \cup {[q |-> "intake_1", letter |-> "z"], [q |-> "intake_99", letter |-> "a"]}

ResponseMaps ==
    UNION {[ks -> ResponseOptions] :
              ks \in {x \in SUBSET ResponseIds : Cardinality(x) <= MaxResponses}}

\* The arguments of the model calls of get_questions_by_category and
\* get_question_by_id
CategoryArgs == SeqToSet(CategoryKeys) \cup {"marketing"}
QuestionIdArgs == {_load_questions[i].id : i \in 1..Len(_load_questions)} \cup {"intake_99"}

\* DiagnosticQuestionnaire(): self.questions = self._load_questions()
DqInit ==
    /\ dq_pc = "ready"
    /\ dq = [questions |-> _load_questions]

Returned(call, arg, value) ==
    [questions |-> dq.questions, call |-> call, arg |-> arg, value |-> value]

GetQuestionsByCategory ==
    /\ dq_pc = "ready"
    /\ \E category \in CategoryArgs :
          dq' = Returned("get_questions_by_category", category,
                         get_questions_by_category(dq.questions, category))
    /\ dq_pc' = "returned"

GetQuestionById ==
    /\ dq_pc = "ready"
    /\ \E question_id \in QuestionIdArgs :
          dq' = Returned("get_question_by_id", question_id,
                         get_question_by_id(dq.questions, question_id))
    /\ dq_pc' = "returned"

CalculateScore ==
    /\ dq_pc = "ready"
    /\ \E responses \in ResponseMaps :
          dq' = Returned("calculate_score", responses,
                         calculate_score(dq.questions, responses))
    /\ dq_pc' = "returned"

InitQuestionnaire ==
    /\ DqInit
    /\ fs_pc = "idle" /\ fs = IdleFs
    /\ dr_pc = "idle" /\ dr = IdleDr
    /\ em_pc = "idle" /\ em = IdleEm
    /\ pc = "idle" /\ req = IdleReq /\ scan_results = IdleResults
    /\ an_pc = "idle" /\ an = IdleAn
    /\ tk_pc = "idle" /\ tk = IdleTk

NextQuestionnaire ==
    \/ GetQuestionsByCategory /\ UNCHANGED <<fsVars, drVars, emVars, coVars, anVars, tkVars>>
    \/ GetQuestionById /\ UNCHANGED <<fsVars, drVars, emVars, coVars, anVars, tkVars>>
    \/ CalculateScore /\ UNCHANGED <<fsVars, drVars, emVars, coVars, anVars, tkVars>>

SpecQuestionnaire == InitQuestionnaire /\ [][NextQuestionnaire]_vars

\* C23: once the questionnaire is constructed, and after every lookup, it
\* holds 22 questions with pairwise distinct ids; every question is of one
\* of the six categories, every category has a question, and the lists
\* get_questions_by_category returns for the six categories hold every
\* question exactly once between them.
C23_Questions ==
    (dq_pc = "ready" \/ (dq_pc = "returned" /\ dq.call # "calculate_score")) =>
        LET qs    == dq.questions
            cats  == SeqToSet(CategoryKeys)
            lists == [c \in cats |-> get_questions_by_category(qs, c)]
        IN  /\ Len(qs) = 22
            /\ Cardinality(cats) = 6
            /\ \A i, j \in 1..Len(qs) : qs[i].id = qs[j].id => i = j
            /\ \A i \in 1..Len(qs) : qs[i].category \in cats
            /\ \A c \in cats : Len(lists[c]) > 0
            /\ \A i \in 1..Len(qs) :
                  Cardinality({<<c, k>> \in cats \X (1..Len(qs)) :
                                  k <= Len(lists[c]) /\ lists[c][k] = qs[i]}) = 1
            /\ (dq_pc = "returned" /\ dq.call = "get_questions_by_category") =>
                  /\ dq.arg \in cats => dq.value = lists[dq.arg]
                  /\ \A k \in 1..Len(dq.value) : dq.value[k].category = dq.arg

\* get_questions_by_category('billing') has returned its three questions
C23_Witness ==
    /\ dq_pc = "returned"
    /\ dq.call = "get_questions_by_category"
    /\ dq.arg = "billing"
    /\ Len(dq.value) = 3


\* The entries of a response map that name a question of the questionnaire
\* and one of the four options of that question
ClaimedValid(qs, responses) ==
    {k \in DOMAIN responses :
        \E i \in 1..Len(qs) :
            /\ qs[i].id = k
            /\ responses[k].q = k
            /\ responses[k].letter \in {"a", "b", "c", "d"}}

Restricted(responses, ks) == [k \in ks |-> responses[k]]

ScoreReturned == dq_pc = "returned" /\ dq.call = "calculate_score"

\* C28: for every response map, also with unknown question ids and with
\* options that are not of the question, calculate_score gives what it
\* gives for the valid entries alone; max_possible is 4 times the number of
\* valid entries; total_score is the sum of category_scores; every
\* percentage lies between 0 and 100; and a category with a valid entry has
\* a percentage of at least 25.
C28_Scores ==
    ScoreReturned =>
        LET r     == dq.value
            valid == ClaimedValid(dq.questions, dq.arg)
            cats  == SeqToSet(CategoryKeys)
            Within(p, lo) == /\ p.den > 0
                             /\ lo * p.den <= p.num
                             /\ p.num <= 100 * p.den
        IN  /\ r = calculate_score(dq.questions, Restricted(dq.arg, valid))
            /\ r.max_possible = 4 * Cardinality(valid)
            /\ r.total_score = SumFn(r.category_scores, cats)
            /\ SumFn(r.category_counts, cats) = Cardinality(valid)
            /\ Within(r.overall_percentage, 0)
            /\ \A c \in cats :
                  /\ Within(r.category_percentages[c], 0)
                  /\ r.category_counts[c] > 0 => Within(r.category_percentages[c], 25)
                  /\ r.category_counts[c] = 0 => r.category_percentages[c].num = 0

\* A score has been returned for a map that holds an unknown question id,
\* an option of another question and a valid answer
C28_Witness ==
    /\ ScoreReturned
    /\ "intake_99" \in DOMAIN dq.arg
    /\ "intake_1" \in DOMAIN dq.arg /\ dq.arg["intake_1"].q = "billing_2"
    /\ "pain_1" \in DOMAIN dq.arg /\ dq.arg["pain_1"] = [q |-> "pain_1", letter |-> "a"]
    /\ dq.value.max_possible = 4
    /\ dq.value.total_score = 1

-----------------------------------------------------------------------------
(* EmailTokenManager (email_sender.py)                                     *)
(*                                                                         *)
(* The clock counts whole days and does not run backwards. A token is 32   *)
(* hex digits of a SHA-256 over 32 fresh random bytes, so every call of    *)
(* generate_token is taken to return a token not returned before: tokens   *)
(* are numbered in the order of their generation.                          *)

\* The most tokens generated and the last day of the model clock; 'last'
\* below holds the call made last, with its value for validate_token
MaxTokens == 1
MaxClock == 9

\* timedelta(days=7)
ExpirationDays == 7

\* EmailTokenManager(): self.tokens = {}; 'calls' remembers, for the
\* properties, when each token was generated and which were marked
TkInit ==
    /\ tk_pc = "ready"
    /\ tk = [tokens |-> <<>>, now |-> 0, generated |-> <<>>, marked |-> {},
             last |-> [op |-> "init"]]

\* generate_token: the entry stored for the new token
TokenData(now) == [created_at |-> now, expires_at |-> now + ExpirationDays, used |-> FALSE]

\* A variant of validate_token without the test of 'used'
validate_token_reusable(tokens, now, token) ==
    IF token \notin DOMAIN tokens THEN None
    ELSE IF now > tokens[token].expires_at THEN None
    ELSE tokens[token]

\* validate_token: the token data, or None
validate_token(tokens, now, token) ==
    IF token \notin DOMAIN tokens THEN None
    ELSE IF now > tokens[token].expires_at THEN None
    ELSE IF Get(tokens[token], "used", FALSE) THEN None
    ELSE tokens[token]

\* mark_token_used: the tokens afterwards
mark_token_used(tokens, now, token) ==
    IF token \in DOMAIN tokens
    THEN [tokens EXCEPT ![token] = Put(Put(@, "used", TRUE), "used_at", now)]
    ELSE tokens

\* cleanup_expired_tokens: the tokens afterwards
cleanup_expired_tokens(tokens, now) ==
    Restricted(tokens, {t \in DOMAIN tokens : ~(now > tokens[t].expires_at)})

GenerateToken ==
    /\ tk_pc = "ready"
    /\ Cardinality(DOMAIN tk.generated) < MaxTokens
    /\ LET token == Cardinality(DOMAIN tk.generated) + 1 IN
       tk' = [tk EXCEPT !.tokens = Put(@, token, TokenData(tk.now)),
                        !.generated = Put(@, token, tk.now),
                        !.last = [op |-> "generate_token"]]
    /\ UNCHANGED tk_pc

\* The tokens a caller can present: those generated so far, and a string
\* that is no token of the manager
ForeignToken == 0
Presentable == DOMAIN tk.generated \cup {ForeignToken}

\* validate_token on a token generated before, or on one never generated
ValidateToken ==
    /\ tk_pc = "ready"
    /\ \E token \in Presentable :
          tk' = [tk EXCEPT !.last = [op |-> "validate_token", token |-> token,
                                     value |-> validate_token(tk.tokens, tk.now, token)]]
    /\ UNCHANGED tk_pc

MarkTokenUsed ==
    /\ tk_pc = "ready"
    /\ \E token \in Presentable :
          tk' = [tk EXCEPT !.tokens = mark_token_used(@, tk.now, token),
                           !.marked = @ \cup {token},
                           !.last = [op |-> "mark_token_used"]]
    /\ UNCHANGED tk_pc

CleanupExpiredTokens ==
    /\ tk_pc = "ready"
    /\ tk' = [tk EXCEPT !.tokens = cleanup_expired_tokens(@, tk.now),
                        !.last = [op |-> "cleanup_expired_tokens"]]
    /\ UNCHANGED tk_pc

\* A day passes
DayPasses ==
    /\ tk_pc = "ready"
    /\ tk.now < MaxClock
    /\ tk' = [tk EXCEPT !.now = @ + 1, !.last = [op |-> "day"]]
    /\ UNCHANGED tk_pc

InitTokens ==
    /\ TkInit
    /\ fs_pc = "idle" /\ fs = IdleFs
    /\ dr_pc = "idle" /\ dr = IdleDr
    /\ em_pc = "idle" /\ em = IdleEm
    /\ pc = "idle" /\ req = IdleReq /\ scan_results = IdleResults
    /\ an_pc = "idle" /\ an = IdleAn
    /\ dq_pc = "idle" /\ dq = IdleDq

NextTokens ==
    \/ GenerateToken /\ UNCHANGED <<fsVars, drVars, emVars, coVars, anVars, dqVars>>
    \/ ValidateToken /\ UNCHANGED <<fsVars, drVars, emVars, coVars, anVars, dqVars>>
    \/ MarkTokenUsed /\ UNCHANGED <<fsVars, drVars, emVars, coVars, anVars, dqVars>>
    \/ CleanupExpiredTokens /\ UNCHANGED <<fsVars, drVars, emVars, coVars, anVars, dqVars>>
    \/ DayPasses /\ UNCHANGED <<fsVars, drVars, emVars, coVars, anVars, dqVars>>

SpecTokens == InitTokens /\ [][NextTokens]_vars

\* validate_token has just returned: the clock and the calls made are those
\* of the moment of the call
Validated == tk_pc = "ready" /\ tk.last.op = "validate_token"
ValidatedData == Validated /\ Truthy(tk.last.value)
DaysSince(token) == tk.now - tk.generated[token]

\* C24 as stated: validate_token(t) returns token data only if t was
\* generated, fewer than 7 days have passed since, and mark_token_used(t)
\* has not been called; once it was called or the 7 days have passed,
\* validate_token(t) returns None.
C24_Original ==
    Validated =>
        LET t == tk.last.token IN
        /\ ValidatedData =>
              /\ t \in DOMAIN tk.generated
              /\ DaysSince(t) < 7
              /\ t \notin tk.marked
        /\ (t \in DOMAIN tk.generated /\ (t \in tk.marked \/ DaysSince(t) >= 7))
              => ~ValidatedData

\* C24: validate_token(t) returns token data only if t was generated, no
\* more than 7 days have passed since, and mark_token_used(t) has not been
\* called; once it was called or more than 7 days have passed, every
\* validate_token(t) returns None, whatever was generated, marked or
\* cleaned up in between. The data returned is that of the token.
C24_TokenValidity ==
    Validated =>
        LET t == tk.last.token IN
        /\ ValidatedData =>
              /\ t \in DOMAIN tk.generated
              /\ DaysSince(t) <= 7
              /\ t \notin tk.marked
              /\ tk.last.value.created_at = tk.generated[t]
        /\ (t \in DOMAIN tk.generated /\ (t \in tk.marked \/ DaysSince(t) > 7))
              => ~ValidatedData
        /\ t \notin DOMAIN tk.generated => ~ValidatedData

\* A token generated on day 1 is validated on day 8, seven days later,
\* after a cleanup, and its data is returned
C24_Witness ==
    /\ ValidatedData
    /\ tk.last.token = 1
    /\ tk.generated[1] = 1
    /\ tk.now = 8

\* A token that was marked used is validated (and refused)
C24_WitnessUsed ==
    /\ Validated
    /\ tk.last.token \in tk.marked
    /\ tk.last.token \in DOMAIN tk.tokens
    /\ tk.now - tk.generated[tk.last.token] < 7

-----------------------------------------------------------------------------
(* The count of Findings in the summary                                    *)

\* C25 as stated: after run_full_analysis, total_findings is the number of
\* Findings in the four severity buckets, which is the number of Findings
\* of the reports sealed with scan_complete true.
C25_Original ==
    Done =>
        /\ scan_results.scan_summary.total_findings = Len(AllBuckets)
        /\ Len(AllBuckets) = Len(FindingsOf("email")) + Len(FindingsOf("filesystem"))
                             + Len(FindingsOf("google_drive"))

-----------------------------------------------------------------------------
(* The totals of the filesystem report and its detail records              *)

\* C26 as stated: in every report scan_filesystem returns, total_files is
\* the number of entries of file_paths, the sum of files_by_category and
\* the sum of files_by_type, and total_size_bytes is the sum of the sizes
\* recorded in file_paths and the sum of size_by_category.
C26_Original ==
    FsSealed =>
        LET r     == fs.results
            sizes == [i \in 1..Len(r.file_paths) |-> r.file_paths[i].size]
        IN  /\ r.total_files = Len(r.file_paths)
            /\ r.total_files = SumFn(r.files_by_category, DOMAIN r.files_by_category)
            /\ r.total_files = SumFn(r.files_by_type, DOMAIN r.files_by_type)
            /\ r.total_size_bytes = SumFn(sizes, DOMAIN sizes)
            /\ r.total_size_bytes = SumFn(r.size_by_category, DOMAIN r.size_by_category)

-----------------------------------------------------------------------------
(* The listing loop of the Drive scan with a provider that may go on       *)
(* answering: the number of requests is not capped here. The page tokens   *)
(* of successive answers differ; 'token_no' tells two successive ones      *)
(* apart.                                                                  *)

DrLoopInit ==
    /\ dr_pc = "about"
    /\ dr \in {Put(DrStart(m, a), "token_no", 0) : m \in MaxFilesArgs, a \in BOOLEAN}

\* One more answered request beyond those that DrListPage counts: a page
\* with no 'files' and a nextPageToken. file_count stays as it is, and
\* 'if not page_token: break' does not leave the loop.
DrListEmptyPage ==
    /\ dr_pc = "list" /\ dr.file_count < dr.max_files
    /\ dr' = [dr EXCEPT !.page_token = TRUE, !.token_no = 1 - @]
    /\ dr_pc' = "list"

InitDriveLoop ==
    /\ DrLoopInit
    /\ fs_pc = "idle" /\ fs = IdleFs
    /\ em_pc = "idle" /\ em = IdleEm
    /\ pc = "idle" /\ req = IdleReq /\ scan_results = IdleResults
    /\ an_pc = "idle" /\ an = IdleAn
    /\ dq_pc = "idle" /\ dq = IdleDq
    /\ tk_pc = "idle" /\ tk = IdleTk

NextDriveLoop ==
    \/ NextDrive
    \/ DrListEmptyPage /\ UNCHANGED <<fsVars, emVars, coVars, anVars, dqVars, tkVars>>

\* The scan keeps running: some step of it is taken whenever one can be
SpecDriveLoop ==
    InitDriveLoop /\ [][NextDriveLoop]_vars /\ WF_vars(NextDriveLoop)

\* C27 as stated: for every sequence of provider responses the listing loop
\* is left after finitely many requests and the scan goes on to seal the
\* report.
C27_Original == (dr_pc = "list") ~> (dr_pc = "sealed")

-----------------------------------------------------------------------------
(* The order of the time savings and their total                           *)

\* C29: the list _calculate_time_savings returns is in non-increasing order
\* of time savings; an item is High exactly when its savings exceed 2 hours
\* a week, so every High item precedes every Medium one; and
\* total_weekly_savings of _generate_recommendations is the sum of the
\* savings of the whole list, also when a slice shows fewer items than the
\* list holds of its kind.
C29_OrderAndTotal ==
    an_pc \in {"done", "recommended"} =>
        LET list == an.time_savings
            sum  == SumFn([i \in 1..Len(list) |-> list[i].time_savings], 1..Len(list))
        IN  /\ \A i, j \in 1..Len(list) :
                  i < j => /\ list[i].time_savings >= list[j].time_savings
                           /\ ~(list[i].priority = "Medium" /\ list[j].priority = "High")
            /\ \A i \in 1..Len(list) :
                  /\ list[i].priority \in {"High", "Medium"}
                  /\ list[i].priority = "High" <=> list[i].time_savings > 2000
            /\ an_pc = "recommended" =>
                  /\ an.recommendations.total_weekly_savings = sum
                  /\ Len(an.recommendations.quick_wins) <= 3
                  /\ Len(an.recommendations.short_term) <= 3
                  /\ Len(an.recommendations.long_term) <= 2

\* Five items of medium difficulty, High and Medium ones among them, of
\* which short_term shows three while the total counts all five
C29_Witness ==
    /\ an_pc = "recommended"
    /\ Len(an.time_savings) = 5
    /\ Len(an.recommendations.short_term) = 3
    /\ \E i, j \in 1..5 : /\ an.time_savings[i].priority = "High"
                          /\ an.time_savings[j].priority = "Medium"
    /\ an.recommendations.total_weekly_savings
          > SumTimeSavings(an.recommendations.quick_wins \o an.recommendations.short_term
                           \o an.recommendations.long_term)

-----------------------------------------------------------------------------
(* PracticeAnalyzer.analyze_responses_detailed on a response map           *)

\* A percentage of calculate_score as the whole number below it: every
\* comparison the analyzer makes is with a whole number, and for a whole
\* number T, p < T exactly when the whole part of p is below T
WholePercent(p) == p.num \div p.den

WholeScores(score_results) ==
    [category_percentages |->
        [c \in DOMAIN score_results.category_percentages |->
            WholePercent(score_results.category_percentages[c])],
     category_counts |-> score_results.category_counts]

GoodFrom == 70
NeedsImprovementFrom == 50

\* _analyze_categories: an entry for every category with a counted answer
_analyze_categories(score_results) ==
    LET counted == {c \in DOMAIN score_results.category_counts :
                       score_results.category_counts[c] # 0}
    IN  [c \in counted |->
            LET percentage == score_results.category_percentages[c] IN
            [ severity |-> IF percentage >= GoodFrom THEN "Good"
                           ELSE IF percentage >= NeedsImprovementFrom THEN "Needs Improvement"
                           ELSE "Critical",
              percentage |-> percentage,
              question_count |-> score_results.category_counts[c] ]]

DetailedInit ==
    /\ an_pc = "detailed"
    /\ an \in {[responses |-> r] : r \in ResponseMaps}

\* analyze_responses_detailed(responses)
AnalyzeResponsesDetailed ==
    /\ an_pc = "detailed"
    /\ LET score_results == WholeScores(calculate_score(_load_questions, an.responses))
           time_savings  == _calculate_time_savings(score_results)
       IN  an' = [ responses |-> an.responses,
                   score_results |-> score_results,
                   category_analysis |-> _analyze_categories(score_results),
                   time_savings |-> time_savings,
                   recommendations |-> _generate_recommendations(time_savings) ]
    /\ an_pc' = "analysed"

InitDetailed ==
    /\ DetailedInit
    /\ fs_pc = "idle" /\ fs = IdleFs
    /\ dr_pc = "idle" /\ dr = IdleDr
    /\ em_pc = "idle" /\ em = IdleEm
    /\ pc = "idle" /\ req = IdleReq /\ scan_results = IdleResults
    /\ dq_pc = "idle" /\ dq = IdleDq
    /\ tk_pc = "idle" /\ tk = IdleTk

NextDetailed ==
    AnalyzeResponsesDetailed /\ UNCHANGED <<fsVars, drVars, emVars, coVars, dqVars, tkVars>>

SpecDetailed == InitDetailed /\ [][NextDetailed]_vars

\* C30 as stated: every time-saving recommendation is for a category that
\* appears in category_analysis (one with a validly answered question), and
\* an empty response map yields total_weekly_savings 0.
C30_Original ==
    an_pc = "analysed" =>
        /\ \A i \in 1..Len(an.time_savings) :
              an.time_savings[i].area \in DOMAIN an.category_analysis
        /\ DOMAIN an.responses = {} => an.recommendations.total_weekly_savings = 0

=============================================================================
